---- MODULE Spec2Model ----
(***************************************************************************)
(* Model of the sotto-core recording engine: SottoEngine (start_listening, *)
(* load_model, switch_model, is_recording), SessionHandle (stop,           *)
(* is_active), the worker thread that start_listening spawns               *)
(* (run_pipeline followed by the terminal notification) and                *)
(* TranscribeSession (feed_samples, flush).                                *)
(*                                                                         *)
(* Threads: the caller threads of Callers, and one worker thread per       *)
(* session.  Locks: SottoEngine.inner (innerLock) and the Mutex around     *)
(* each loaded ParakeetEngine (engLock).  Samples are represented by their *)
(* position in the capture stream (1, 2, 3, ...), texts by sequences of    *)
(* characters.  Time is counted in milliseconds, in steps of 500.            *)
(***************************************************************************)
EXTENDS Integers, Sequences, FiniteSets, TLC

\* ------------------------------------------------------------------ bounds
\* The single-session specification (PipelineSpec).
MaxCapture == 4       \* samples the microphone yields over a run
MaxBatch == 2         \* longest batch one read_samples call returns
MaxStops == 2         \* stop() calls made on one handle
MaxDuration == 1      \* largest ListenConfig.max_duration (seconds)

\* Stand-ins for sizes of the program, scaled down to the capture bound.
ChunkSize == 2        \* vad.chunk_size()
PreSpeechMax == 2     \* pre_speech_max (16000 in the source)
MaxSamples == 3       \* MAX_SAMPLES of flush (4 * 60 * 16000 in the source)

\* The functions applied on their own (TextSpec).
MaxTextLen == 5       \* longest text given to the text functions

\* The voice activity detector on its own (VadSpec).
MaxChunks == 6        \* chunks given to one VadProcessor

\* The model download (DownloadSpec).
NFiles == 2           \* files of the model downloaded
MaxDownloads == 2     \* calls of download_model

\* The wait for the completion of a session (WaitSpec).
MaxSpurious == 1      \* spurious wakeups of Condvar::wait

\* const MAX_SAMPLES of flush, as the source computes it: 4 min at 16 kHz.
MAX_SAMPLES == 4 * 60 * 16000

Callers == {1, 2}
Sessions == {1, 2}
Engines == {1, 2}

\* What bounds a run: the caller threads that act, the sessions and engines
\* created, the chunk size of the VAD, the samples the microphone yields
\* over the run and per read, the stop() calls per handle and the
\* max_duration values passed to start_listening.
EngineLimits ==
    [ callers |-> Callers, sessions |-> 2, engines |-> 1, chunk |-> 1,
      capture |-> 2, batch |-> 1, stops |-> 1, durations |-> {1} ]

PipelineLimits ==
    [ callers |-> {1}, sessions |-> 1, engines |-> 1, chunk |-> ChunkSize,
      capture |-> MaxCapture, batch |-> MaxBatch, stops |-> MaxStops,
      durations |-> 0..MaxDuration ]

\* ------------------------------------------------------------------ values
Free == <<"free", 0>>
CallerT(c) == <<"caller", c>>
WorkerT(s) == <<"worker", s>>

NoResult == <<"none">>
Ok(v) == <<"Ok", v>>
Err(m) == <<"Err", m>>
IsOk(r) == r[1] = "Ok"
IsErr(r) == r[1] = "Err"

\* models::MODELS holds one entry; "other" stands for any name not in it.
RegisteredModels == {"parakeet-tdt-0.6b-v2"}
ModelNames == RegisteredModels \cup {"other"}

\* Old Whisper model names that are migrated to the default model.
WHISPER_MODEL_NAMES == {"tiny.en", "base.en", "small.en", "medium.en"}
default_model_name == "parakeet-tdt-0.6b-v2"

\* The texts the inference engine may return.
RawTexts == { <<>>, <<" ", "h", "i">>, <<"[", "x", "]">> }

\* The characters of the texts given to the text functions: a whitespace,
\* the brackets the filter looks for, and a letter.
Chars == {" ", "[", "]", "(", ")", "a"}
Texts == UNION { [1..n -> Chars] : n \in 0..MaxTextLen }

VadEvents == {"SpeechStart", "SpeechContinue", "SpeechEnd", "Silence"}

\* ------------------------------------------------------------------ state
VARIABLES
    innerLock,      \* holder of SottoEngine.inner
    engineSlot,     \* inner.engine: 0 is None, else the engine id
    modelName,      \* inner.config.model_name
    savedModelName, \* model_name of the persisted configuration
    recording,      \* inner.recording
    nextEngine,     \* engines loaded so far
    engLock,        \* engine id -> holder of its Mutex
    engPoisoned,    \* engine id -> its Mutex is poisoned
    engModel,       \* engine id -> the model it was loaded from
    callerPc,       \* caller -> position inside start_listening
    callerArg,      \* caller -> listen_config.max_duration of the call
    callerEngine,   \* caller -> the engine Arc cloned by the call
    returning,      \* the call that is returning: <<caller, operation, value>>
    nextSession,    \* sessions started so far
    sess,           \* session -> state of its worker and handle
    micTotal,       \* samples the microphone has yielded so far, to any session
    events,         \* the callbacks delivered so far, <<session, kind, payload>>
    input,          \* the argument of a function applied on its own
    output,         \* the value that function returned
    vad,            \* a VadProcessor, the chunks given to it, its events
    disk,           \* model file -> the file at its final and at its temp path
    dl,             \* the download_model call under way, and the calls so far
    completion      \* a CompletionSignal and the thread that waits on it

vars == <<innerLock, engineSlot, modelName, savedModelName, recording,
          nextEngine, engLock, engPoisoned, engModel, callerPc, callerArg,
          callerEngine, returning, nextSession, sess, micTotal, events,
          input, output, vad, disk, dl, completion>>

engineVars == <<engineSlot, modelName, savedModelName, nextEngine, engModel>>
callerVars == <<callerPc, callerArg, callerEngine, returning>>

\* The state of SottoEngine, its callers and its sessions.
coreVars == <<innerLock, engineSlot, modelName, savedModelName, recording,
              nextEngine, engLock, engPoisoned, engModel, callerPc, callerArg,
              callerEngine, returning, nextSession, sess, micTotal, events>>

\* The state of the functions and programs modelled apart from the engine.
auxVars == <<input, output, vad, disk, dl, completion>>

\* ------------------------------------------------------------ pure helpers
Min(a, b) == IF a <= b THEN a ELSE b

IsWhitespace(ch) == ch = " "

RECURSIVE TrimStart(_)
TrimStart(t) ==
    IF t # <<>> /\ IsWhitespace(Head(t)) THEN TrimStart(Tail(t)) ELSE t

RECURSIVE TrimEnd(_)
TrimEnd(t) ==
    IF t # <<>> /\ IsWhitespace(t[Len(t)])
    THEN TrimEnd(SubSeq(t, 1, Len(t) - 1))
    ELSE t

\* str::trim
Trim(t) == TrimEnd(TrimStart(t))

starts_with(t, ch) == t # <<>> /\ t[1] = ch
ends_with(t, ch) == t # <<>> /\ t[Len(t)] = ch

\* A filter that takes any opening bracket with any closing bracket.
is_hallucination_any_pair(text) ==
    LET t == Trim(text)
    IN  /\ starts_with(t, "[") \/ starts_with(t, "(")
        /\ ends_with(t, "]") \/ ends_with(t, ")")

is_hallucination(text) ==
    LET t == Trim(text)
    IN  \/ starts_with(t, "[") /\ ends_with(t, "]")
        \/ starts_with(t, "(") /\ ends_with(t, ")")

\* A flush that filters the trimmed text and returns the raw one.
FlushSegmentsRaw(raw) ==
    LET text == Trim(raw)
    IN  IF text = <<>> \/ is_hallucination(text)
        THEN <<>>
        ELSE << [text |-> raw, is_final |-> TRUE] >>

\* The tail of flush: the segments made of the engine's text.
FlushSegments(raw) ==
    LET text == Trim(raw)
    IN  IF text = <<>> \/ is_hallucination(text)
        THEN <<>>
        ELSE << [text |-> text, is_final |-> TRUE] >>

\* final_segments.iter().map(|s| s.text).collect().join(" ")
RECURSIVE JoinSegments(_)
JoinSegments(segs) ==
    IF segs = <<>> THEN <<>>
    ELSE IF Len(segs) = 1 THEN segs[1].text
    ELSE segs[1].text \o <<" ">> \o JoinSegments(Tail(segs))

\* A truncation that keeps the newest samples and drops the oldest.
TruncateTail(buf) ==
    IF Len(buf) > MaxSamples
    THEN SubSeq(buf, Len(buf) - MaxSamples + 1, Len(buf))
    ELSE buf

\* audio_buffer.truncate(MAX_SAMPLES)
Truncate(buf) ==
    IF Len(buf) > MaxSamples THEN SubSeq(buf, 1, MaxSamples) ELSE buf

\* A ring buffer that drops the newest excess and keeps the oldest samples.
PreSpeechPushOldest(buf, samples) ==
    LET all == buf \o samples
    IN  IF Len(all) > PreSpeechMax
        THEN SubSeq(all, 1, PreSpeechMax)
        ELSE all

\* The pre-speech ring buffer: append, then drop the oldest excess.
PreSpeechPush(buf, samples) ==
    LET all == buf \o samples
    IN  IF Len(all) > PreSpeechMax
        THEN SubSeq(all, Len(all) - PreSpeechMax + 1, Len(all))
        ELSE all

\* The samples numbered from+1 .. from+n of the capture stream.
Batch(from, n) == [i \in 1..n |-> from + i]

\* Duration::from_secs(max_duration), in milliseconds.
MaxDurMs(secs) == 1000 * secs

\* The throttle of on_partial, in milliseconds.  The clocks of a worker
\* (start_time.elapsed(), last_partial_time.elapsed()) are observed at this
\* granularity.
PartialIntervalMs == 500

\* ---------------------------------------------------------------- sessions
NoSession ==
    [ pc |-> "none", stop_flag |-> FALSE, stops |-> 0, engine |-> 0,
      max_duration |-> 0, chunk_size |-> 0, speech_detected |-> FALSE,
      vad_buffer |-> <<>>, vad_chunks |-> <<>>,
      pre_speech_buffer |-> <<>>, audio_buffer |-> <<>>, samples |-> <<>>,
      captured |-> 0, elapsed |-> 0, since_partial |-> 0, exit |-> "none",
      onset |-> 0, onset_pre |-> <<>>,
      segments |-> <<>>, result |-> NoResult, infers |-> 0,
      infer_res |-> NoResult, stop_in_infer |-> FALSE ]

Event(s, kind, payload) == <<s, kind, payload>>

\* The callbacks of session s, in delivery order.
SessionLog(s) == SelectSeq(events, LAMBDA e : e[1] = s)
Kinds(log) == [i \in 1..Len(log) |-> log[i][2]]
Count(log, kind) == Cardinality({i \in 1..Len(log) : log[i][2] = kind})
IsTerminal(e) == e[2] \in {"Done", "Error"}

\* SessionHandle::is_active
is_active(s) == ~sess[s].stop_flag

\* SottoEngine::is_recording (the value it reads under the inner lock)
is_recording == recording

\* The files of the model downloaded, and ModelFile.size_mb of each.
Files == 1..NFiles
size_mb(f) == IF f = 1 THEN 1 ELSE 36

\* No file at a path; a file with its length, whether its stream ended
\* without an error and whether it passed the integrity check.
Absent == [exists |-> FALSE, size |-> 0, complete |-> FALSE, verified |-> FALSE]
NoDisk == [f \in Files |-> [final |-> Absent, temp |-> Absent]]
NoDownload ==
    [ crate |-> "none", sha256 |-> [f \in Files |-> FALSE], calls |-> 0,
      pc |-> "idle", file |-> 0, result |-> NoResult ]

\* CompletionSignal { result: Mutex::new(None), condvar: Condvar::new() } and
\* the thread that is to wait on it: the holder of the mutex, the Option in
\* it (NoResult is None), the position of the waiter, whether it is parked
\* in Condvar::wait and whether a notification has unparked it, the value
\* its wait returned, and whether on_state_change has stored a result.
NoCompletion ==
    [ mutex |-> "free", result |-> NoResult, pc |-> "idle", woken |-> FALSE,
      taken |-> NoResult, stored |-> FALSE, waited |-> FALSE, spurious |-> 0 ]

\* VadProcessor::new
VadNew(config) ==
    [ speech_threshold |-> config.speech_threshold,
      silence_duration_ms |-> config.silence_duration_ms,
      is_speaking |-> FALSE, silence_ms |-> 0, probs |-> <<>>, log |-> <<>>,
      live |-> TRUE ]

\* No detector was constructed.
NoVad == [VadNew([speech_threshold |-> 0, silence_duration_ms |-> 0])
              EXCEPT !.live = FALSE]

\* The fields of a new SottoEngine other than its configuration, with no
\* caller and no session yet.
EngineIdle ==
    /\ innerLock = Free
    /\ engineSlot = 0
    /\ recording = FALSE
    /\ nextEngine = 0
    /\ engLock = [e \in Engines |-> Free]
    /\ engPoisoned = [e \in Engines |-> FALSE]
    /\ engModel = [e \in Engines |-> "none"]
    /\ callerPc = [c \in Callers |-> "idle"]
    /\ callerArg = [c \in Callers |-> 0]
    /\ callerEngine = [c \in Callers |-> 0]
    /\ returning = NoResult
    /\ nextSession = 0
    /\ sess = [s \in Sessions |-> NoSession]
    /\ micTotal = 0
    /\ events = <<>>

CoreInit ==
    /\ EngineIdle
    /\ modelName \in ModelNames
    /\ savedModelName = modelName

Init ==
    /\ CoreInit
    /\ input = NoResult
    /\ output = NoResult
    /\ vad = NoVad
    /\ disk = NoDisk
    /\ dl = NoDownload
    /\ completion = NoCompletion

\* ------------------------------------------------------ SottoEngine: models
\* A lock that excludes nobody.
InnerLockIgnored == TRUE

\* Mutex::lock on SottoEngine.inner: the caller proceeds when no thread holds it.
InnerLockFree == innerLock = Free

\* A call of caller c returns v.  The return is observed in the step that
\* follows, before any thread takes another step.
Return(c, v) ==
    /\ callerPc' = [callerPc EXCEPT ![c] = "idle"]
    /\ returning' = <<c, v[1], v[2]>>

\* load_model: the whole call runs under the inner lock.
LoadModel(L, c) ==
    /\ callerPc[c] = "idle"
    /\ InnerLockFree
    /\ nextEngine < L.engines
    /\ \E downloaded \in BOOLEAN, loaded \in BOOLEAN :
         IF modelName \notin RegisteredModels \/ ~downloaded
         THEN /\ Return(c, <<"load_model", Err("NoModel")>>)
              /\ UNCHANGED <<engineVars, engLock, engPoisoned>>
         ELSE IF ~loaded
         THEN /\ Return(c, <<"load_model", Err("Transcribe")>>)
              /\ UNCHANGED <<engineVars, engLock, engPoisoned>>
         ELSE /\ nextEngine' = nextEngine + 1
              /\ engineSlot' = nextEngine + 1
              /\ engModel' = [engModel EXCEPT ![nextEngine + 1] = modelName]
              /\ Return(c, <<"load_model", Ok("unit")>>)
              /\ UNCHANGED <<modelName, savedModelName, engLock, engPoisoned>>
    /\ UNCHANGED <<innerLock, recording, callerArg, callerEngine,
                   nextSession, sess, micTotal, events>>

\* switch_model: the whole call runs under the inner lock.
SwitchModel(L, c, name) ==
    /\ callerPc[c] = "idle"
    /\ InnerLockFree
    /\ nextEngine < L.engines
    /\ \E downloaded \in BOOLEAN, loaded \in BOOLEAN, saved \in BOOLEAN :
         IF name \notin RegisteredModels \/ ~downloaded
         THEN /\ Return(c, <<"switch_model", Err("NoModel")>>)
              /\ UNCHANGED <<engineVars, engLock, engPoisoned>>
         ELSE IF ~loaded
         THEN /\ Return(c, <<"switch_model", Err("Transcribe")>>)
              /\ UNCHANGED <<engineVars, engLock, engPoisoned>>
         ELSE /\ nextEngine' = nextEngine + 1
              /\ engineSlot' = nextEngine + 1
              /\ engModel' = [engModel EXCEPT ![nextEngine + 1] = name]
              /\ modelName' = name
              /\ IF saved
                 THEN /\ savedModelName' = name
                      /\ Return(c, <<"switch_model", Ok("unit")>>)
                 ELSE /\ UNCHANGED savedModelName
                      /\ Return(c, <<"switch_model", Err("Config")>>)
              /\ UNCHANGED <<engLock, engPoisoned>>
    /\ UNCHANGED <<innerLock, recording, callerArg, callerEngine,
                   nextSession, sess, micTotal, events>>

\* The caller has the value of its call.
Returned ==
    /\ returning # NoResult
    /\ returning' = NoResult
    /\ UNCHANGED <<innerLock, engineVars, recording, engLock, engPoisoned,
                   callerPc, callerArg, callerEngine, nextSession, sess, micTotal, events>>
    /\ UNCHANGED auxVars

\* --------------------------------------------- SottoEngine::start_listening
\* start_listening with recording.store(true) moved ahead of the engine test.
StartListeningFlagFirst(L, c, max_duration) ==
    /\ callerPc[c] = "idle"
    /\ InnerLockFree
    /\ recording \/ engineSlot = 0 \/ nextSession < L.sessions
    /\ IF recording
       THEN /\ Return(c, <<"start_listening", Err("AlreadyRecording")>>)
            /\ UNCHANGED <<innerLock, callerArg, callerEngine, recording>>
       ELSE IF engineSlot = 0
       THEN /\ Return(c, <<"start_listening", Err("NoModel")>>)
            /\ recording' = TRUE
            /\ UNCHANGED <<innerLock, callerArg, callerEngine>>
       ELSE /\ innerLock' = CallerT(c)
            /\ callerPc' = [callerPc EXCEPT ![c] = "create_session"]
            /\ callerArg' = [callerArg EXCEPT ![c] = max_duration]
            /\ callerEngine' = [callerEngine EXCEPT ![c] = engineSlot]
            /\ UNCHANGED <<returning, recording>>
    /\ UNCHANGED <<engineVars, engLock, engPoisoned,
                   nextSession, sess, micTotal, events>>

\* Lines 223-229: lock inner, test the recording flag, clone the engine Arc.
StartListeningEnter(L, c, max_duration) ==
    /\ callerPc[c] = "idle"
    /\ InnerLockFree
    /\ recording \/ engineSlot = 0 \/ nextSession < L.sessions
    /\ IF recording
       THEN /\ Return(c, <<"start_listening", Err("AlreadyRecording")>>)
            /\ UNCHANGED <<innerLock, callerArg, callerEngine>>
       ELSE IF engineSlot = 0
       THEN /\ Return(c, <<"start_listening", Err("NoModel")>>)
            /\ UNCHANGED <<innerLock, callerArg, callerEngine>>
       ELSE /\ innerLock' = CallerT(c)
            /\ callerPc' = [callerPc EXCEPT ![c] = "create_session"]
            /\ callerArg' = [callerArg EXCEPT ![c] = max_duration]
            /\ callerEngine' = [callerEngine EXCEPT ![c] = engineSlot]
            /\ UNCHANGED returning
    /\ UNCHANGED <<engineVars, recording, engLock, engPoisoned,
                   nextSession, sess, micTotal, events>>

\* Lines 235-238: engine.lock()?.create_session(..); the guard is dropped at
\* the end of the statement.
StartListeningCreateSession(c) ==
    /\ callerPc[c] = "create_session"
    /\ engLock[callerEngine[c]] = Free
    /\ IF engPoisoned[callerEngine[c]]
       THEN /\ Return(c, <<"start_listening", Err("Transcribe")>>)
            /\ innerLock' = Free
       ELSE /\ callerPc' = [callerPc EXCEPT ![c] = "spawn"]
            /\ UNCHANGED <<innerLock, returning>>
    /\ UNCHANGED <<engineVars, recording, engLock, engPoisoned, callerArg,
                   callerEngine, nextSession, sess, micTotal, events>>

\* A start_listening that spawns the worker and leaves the recording flag
\* as it is.
StartListeningSpawnNoFlag(c) ==
    /\ callerPc[c] = "spawn"
    /\ nextSession + 1 \in Sessions
    /\ LET s == nextSession + 1
       IN  /\ nextSession' = s
           /\ UNCHANGED recording
           /\ sess' = [sess EXCEPT ![s] =
                  [NoSession EXCEPT !.pc = "listening",
                                    !.engine = callerEngine[c],
                                    !.max_duration = callerArg[c]]]
           /\ Return(c, <<"start_listening", Ok(s)>>)
    /\ innerLock' = Free
    /\ UNCHANGED <<engineVars, engLock, engPoisoned, callerArg, callerEngine,
                   micTotal, events>>

\* Lines 240-283: the handle, recording.store(true), thread::spawn, Ok(handle).
StartListeningSpawn(c) ==
    /\ callerPc[c] = "spawn"
    /\ nextSession + 1 \in Sessions
    /\ LET s == nextSession + 1
       IN  /\ nextSession' = s
           /\ recording' = TRUE
           /\ sess' = [sess EXCEPT ![s] =
                  [NoSession EXCEPT !.pc = "listening",
                                    !.engine = callerEngine[c],
                                    !.max_duration = callerArg[c]]]
           /\ Return(c, <<"start_listening", Ok(s)>>)
    /\ innerLock' = Free
    /\ UNCHANGED <<engineVars, engLock, engPoisoned, callerArg, callerEngine,
                   micTotal, events>>

\* ------------------------------------------------------------ SessionHandle
\* A stop() that toggles the flag instead of setting it.
StopToggles(L, s) ==
    /\ sess[s].pc # "none"
    /\ sess[s].stops < L.stops
    /\ sess' = [sess EXCEPT ![s].stop_flag = ~@,
                            ![s].stops = @ + 1,
                            ![s].stop_in_infer = @ \/ sess[s].pc = "infer"]
    /\ UNCHANGED <<innerLock, engineVars, recording, engLock, engPoisoned,
                   callerVars, nextSession, micTotal, events>>

\* A stop() that also clears the recording flag of the engine.
StopClearsFlag(L, s) ==
    /\ sess[s].pc # "none"
    /\ sess[s].stops < L.stops
    /\ sess' = [sess EXCEPT ![s].stop_flag = TRUE,
                            ![s].stops = @ + 1,
                            ![s].stop_in_infer = @ \/ sess[s].pc = "infer"]
    /\ recording' = FALSE
    /\ UNCHANGED <<innerLock, engineVars, engLock, engPoisoned,
                   callerVars, nextSession, micTotal, events>>

\* stop(), on the handle of a session that start_listening has returned.
Stop(L, s) ==
    /\ sess[s].pc # "none"
    /\ sess[s].stops < L.stops
    /\ sess' = [sess EXCEPT ![s].stop_flag = TRUE,
                            ![s].stops = @ + 1,
                            ![s].stop_in_infer = @ \/ sess[s].pc = "infer"]
    /\ UNCHANGED <<innerLock, engineVars, recording, engLock, engPoisoned,
                   callerVars, nextSession, micTotal, events>>

\* ------------------------------------------------- the worker: run_pipeline
workerFrame == <<innerLock, engineVars, callerVars, nextSession>>

\* A worker closure that goes from run_pipeline straight to the terminal
\* notification, with the recording flag as it is.
PipelineReturnToTerminal(s, result) ==
    [sess[s] EXCEPT !.pc = "terminal", !.result = result,
                    !.chunk_size = 0, !.speech_detected = FALSE,
                    !.vad_buffer = <<>>, !.vad_chunks = <<>>,
                    !.pre_speech_buffer = <<>>, !.audio_buffer = <<>>,
                    !.samples = <<>>, !.captured = 0, !.elapsed = 0,
                    !.since_partial = 0, !.segments = <<>>,
                    !.onset = 0, !.onset_pre = <<>>]

\* run_pipeline returns: its locals (the capture, the VAD, the buffers, the
\* clocks) and the session it owns are dropped.
PipelineReturn(s, result) ==
    [sess[s] EXCEPT !.pc = "clear_flag", !.result = result,
                    !.chunk_size = 0, !.speech_detected = FALSE,
                    !.vad_buffer = <<>>, !.vad_chunks = <<>>,
                    !.pre_speech_buffer = <<>>, !.audio_buffer = <<>>,
                    !.samples = <<>>, !.captured = 0, !.elapsed = 0,
                    !.since_partial = 0, !.segments = <<>>,
                    !.onset = 0, !.onset_pre = <<>>]

\* Line 334: callback.on_state_change(Listening).
WorkerListening(s) ==
    /\ sess[s].pc = "listening"
    /\ events' = Append(events, Event(s, "Listening", <<>>))
    /\ sess' = [sess EXCEPT ![s].pc = "setup"]
    /\ UNCHANGED <<workerFrame, micTotal, recording, engLock, engPoisoned>>

\* Lines 337-357: AudioCapture::start, VadProcessor::new, the clocks and the
\* buffers.  Either constructor may fail, and `?` returns the error.
WorkerSetup(L, s) ==
    /\ sess[s].pc = "setup"
    /\ \E outcome \in {"ok", "Audio", "VadInit"} :
         IF outcome = "ok"
         THEN sess' = [sess EXCEPT ![s].pc = "loop",
                                   ![s].chunk_size = L.chunk]
         ELSE sess' = [sess EXCEPT ![s] = PipelineReturn(s, Err(outcome))]
    /\ UNCHANGED <<workerFrame, micTotal, recording, engLock, engPoisoned, events>>

\* A worker that never sees the flag.
StopNeverSeen(s) == FALSE

\* Line 361: stop_flag.load(..).
StopRequested(s) == sess[s].stop_flag

\* A loop without a deadline.
NoDeadline(s) == FALSE

\* Line 365: start_time.elapsed() >= max_dur.
TimedOut(s) == sess[s].elapsed >= MaxDurMs(sess[s].max_duration)

\* A loop that puts each batch in place of the staging buffer, dropping the
\* samples left over from the batch before.
WorkerLoopRestages(L, s) ==
    /\ sess[s].pc = "loop"
    /\ IF StopRequested(s)
       THEN /\ sess' = [sess EXCEPT ![s].pc = "processing", ![s].exit = "stop"]
            /\ UNCHANGED micTotal
       ELSE IF TimedOut(s)
       THEN /\ sess' = [sess EXCEPT ![s].pc = "processing",
                                    ![s].exit = "timeout"]
            /\ UNCHANGED micTotal
       ELSE \E n \in 0..Min(L.batch, L.capture - micTotal) :
              /\ micTotal' = micTotal + n
              /\ IF n = 0
                 THEN UNCHANGED sess
                 ELSE LET samples == Batch(sess[s].captured, n)
                      IN  sess' = [sess EXCEPT
                              ![s].pc = "chunks",
                              ![s].samples = samples,
                              ![s].captured = @ + n,
                              ![s].vad_buffer = samples]
    /\ UNCHANGED <<workerFrame, recording, engLock, engPoisoned, events>>

\* Lines 359-378: the stop check, the timeout check, read_samples.
WorkerLoop(L, s) ==
    /\ sess[s].pc = "loop"
    /\ IF StopRequested(s)
       THEN /\ sess' = [sess EXCEPT ![s].pc = "processing", ![s].exit = "stop"]
            /\ UNCHANGED micTotal
       ELSE IF TimedOut(s)
       THEN /\ sess' = [sess EXCEPT ![s].pc = "processing",
                                    ![s].exit = "timeout"]
            /\ UNCHANGED micTotal
       ELSE \E n \in 0..Min(L.batch, L.capture - micTotal) :
              /\ micTotal' = micTotal + n
              /\ IF n = 0
                 THEN UNCHANGED sess
                 ELSE LET samples == Batch(sess[s].captured, n)
                      IN  sess' = [sess EXCEPT
                              ![s].pc = "chunks",
                              ![s].samples = samples,
                              ![s].captured = @ + n,
                              ![s].vad_buffer = @ \o samples]
    /\ UNCHANGED <<workerFrame, recording, engLock, engPoisoned, events>>

\* A chunk loop whose SpeechStart arm feeds the pre-speech buffer to the
\* session and keeps it.
WorkerChunkKeepsPreSpeech(s) ==
    /\ sess[s].pc = "chunks"
    /\ Len(sess[s].vad_buffer) >= sess[s].chunk_size
    /\ LET chunk == SubSeq(sess[s].vad_buffer, 1, sess[s].chunk_size)
           rest == SubSeq(sess[s].vad_buffer, sess[s].chunk_size + 1,
                          Len(sess[s].vad_buffer))
       IN  \E ev \in VadEvents \cup {"Error"} :
             CASE ev = "Error" ->
                    sess' = [sess EXCEPT ![s] = PipelineReturn(s, Err("VadProcess"))]
               [] ev = "SpeechStart" ->
                    sess' = [sess EXCEPT
                        ![s].vad_buffer = rest,
                        ![s].vad_chunks = Append(@, chunk),
                        ![s].speech_detected = TRUE,
                        ![s].audio_buffer = @ \o sess[s].pre_speech_buffer,
                        ![s].onset = IF sess[s].speech_detected THEN @
                                     ELSE sess[s].captured - Len(sess[s].samples),
                        ![s].onset_pre = IF sess[s].speech_detected THEN @
                                         ELSE sess[s].pre_speech_buffer]
               [] ev = "SpeechEnd" /\ sess[s].speech_detected ->
                    sess' = [sess EXCEPT ![s].vad_buffer = rest,
                                         ![s].vad_chunks = Append(@, chunk),
                                         ![s].pc = "silence",
                                         ![s].exit = "speech_end"]
               [] OTHER ->
                    sess' = [sess EXCEPT ![s].vad_buffer = rest,
                                         ![s].vad_chunks = Append(@, chunk)]
    /\ UNCHANGED <<workerFrame, micTotal, recording, engLock, engPoisoned, events>>

\* Lines 380-417: one turn of the chunk loop: drain a chunk, process_chunk.
WorkerChunk(s) ==
    /\ sess[s].pc = "chunks"
    /\ Len(sess[s].vad_buffer) >= sess[s].chunk_size
    /\ LET chunk == SubSeq(sess[s].vad_buffer, 1, sess[s].chunk_size)
           rest == SubSeq(sess[s].vad_buffer, sess[s].chunk_size + 1,
                          Len(sess[s].vad_buffer))
       IN  \E ev \in VadEvents \cup {"Error"} :
             CASE ev = "Error" ->
                    sess' = [sess EXCEPT ![s] = PipelineReturn(s, Err("VadProcess"))]
               [] ev = "SpeechStart" ->
                    sess' = [sess EXCEPT
                        ![s].vad_buffer = rest,
                        ![s].vad_chunks = Append(@, chunk),
                        ![s].speech_detected = TRUE,
                        ![s].audio_buffer = @ \o sess[s].pre_speech_buffer,
                        ![s].pre_speech_buffer = <<>>,
                        ![s].onset = IF sess[s].speech_detected THEN @
                                     ELSE sess[s].captured - Len(sess[s].samples),
                        ![s].onset_pre = IF sess[s].speech_detected THEN @
                                         ELSE sess[s].pre_speech_buffer]
               [] ev = "SpeechEnd" /\ sess[s].speech_detected ->
                    sess' = [sess EXCEPT ![s].vad_buffer = rest,
                                         ![s].vad_chunks = Append(@, chunk),
                                         ![s].pc = "silence",
                                         ![s].exit = "speech_end"]
               [] OTHER ->
                    sess' = [sess EXCEPT ![s].vad_buffer = rest,
                                         ![s].vad_chunks = Append(@, chunk)]
    /\ UNCHANGED <<workerFrame, micTotal, recording, engLock, engPoisoned, events>>

\* A loop that notifies a partial instead of feeding the batch.
WorkerFeedOrPartial(s) ==
    /\ sess[s].pc = "chunks"
    /\ Len(sess[s].vad_buffer) < sess[s].chunk_size
    /\ IF sess[s].speech_detected
       THEN LET buf == sess[s].audio_buffer \o sess[s].samples
            IN  IF sess[s].since_partial >= PartialIntervalMs
                THEN /\ events' = Append(events, Event(s, "Partial", Len(buf)))
                     /\ sess' = [sess EXCEPT ![s].pc = "loop",
                                             ![s].since_partial = 0]
                ELSE /\ sess' = [sess EXCEPT ![s].pc = "loop",
                                             ![s].audio_buffer = buf]
                     /\ UNCHANGED events
       ELSE /\ sess' = [sess EXCEPT
                   ![s].pc = "loop",
                   ![s].pre_speech_buffer = PreSpeechPush(@, sess[s].samples)]
            /\ UNCHANGED events
    /\ UNCHANGED <<workerFrame, micTotal, recording, engLock, engPoisoned>>

\* A loop that notifies a partial with every batch fed to the session.
WorkerFeedUnthrottled(s) ==
    /\ sess[s].pc = "chunks"
    /\ Len(sess[s].vad_buffer) < sess[s].chunk_size
    /\ IF sess[s].speech_detected
       THEN LET buf == sess[s].audio_buffer \o sess[s].samples
            IN  IF TRUE
                THEN /\ events' = Append(events, Event(s, "Partial", Len(buf)))
                     /\ sess' = [sess EXCEPT ![s].pc = "loop",
                                             ![s].audio_buffer = buf,
                                             ![s].since_partial = 0]
                ELSE /\ sess' = [sess EXCEPT ![s].pc = "loop",
                                             ![s].audio_buffer = buf]
                     /\ UNCHANGED events
       ELSE /\ sess' = [sess EXCEPT
                   ![s].pc = "loop",
                   ![s].pre_speech_buffer = PreSpeechPush(@, sess[s].samples)]
            /\ UNCHANGED events
    /\ UNCHANGED <<workerFrame, micTotal, recording, engLock, engPoisoned>>

\* Lines 419-436: after the chunk loop, the batch goes to the session (with
\* the throttled on_partial) or to the pre-speech buffer.
WorkerFeed(s) ==
    /\ sess[s].pc = "chunks"
    /\ Len(sess[s].vad_buffer) < sess[s].chunk_size
    /\ IF sess[s].speech_detected
       THEN LET buf == sess[s].audio_buffer \o sess[s].samples
            IN  IF sess[s].since_partial >= PartialIntervalMs
                THEN /\ events' = Append(events, Event(s, "Partial", Len(buf)))
                     /\ sess' = [sess EXCEPT ![s].pc = "loop",
                                             ![s].audio_buffer = buf,
                                             ![s].since_partial = 0]
                ELSE /\ sess' = [sess EXCEPT ![s].pc = "loop",
                                             ![s].audio_buffer = buf]
                     /\ UNCHANGED events
       ELSE /\ sess' = [sess EXCEPT
                   ![s].pc = "loop",
                   ![s].pre_speech_buffer = PreSpeechPush(@, sess[s].samples)]
            /\ UNCHANGED events
    /\ UNCHANGED <<workerFrame, micTotal, recording, engLock, engPoisoned>>

\* Lines 395-399: on_silence, then on_state_change(Processing).
WorkerSilence(s) ==
    /\ sess[s].pc = "silence"
    /\ events' = events \o << Event(s, "Silence", <<>>),
                              Event(s, "Processing", <<>>) >>
    /\ sess' = [sess EXCEPT ![s].pc = "flush"]
    /\ UNCHANGED <<workerFrame, micTotal, recording, engLock, engPoisoned>>

\* The loop left without the Processing notification.
WorkerProcessingSilent(s) ==
    /\ sess[s].pc = "processing"
    /\ sess' = [sess EXCEPT ![s].pc = "flush"]
    /\ UNCHANGED <<workerFrame, micTotal, recording, engLock, engPoisoned, events>>

\* Line 440: on_state_change(Processing) after the loop was left.
WorkerProcessing(s) ==
    /\ sess[s].pc = "processing"
    /\ events' = Append(events, Event(s, "Processing", <<>>))
    /\ sess' = [sess EXCEPT ![s].pc = "flush"]
    /\ UNCHANGED <<workerFrame, micTotal, recording, engLock, engPoisoned>>

\* ------------------------------------------------ TranscribeSession::flush
\* A flush that goes to the engine whatever the buffer holds.
FlushLockAlways(s) ==
    /\ sess[s].pc = "flush"
    /\ engLock[sess[s].engine] = Free
    /\ sess' = [sess EXCEPT ![s].pc = "infer",
                            ![s].audio_buffer = Truncate(@)]
    /\ engLock' = [engLock EXCEPT ![sess[s].engine] = WorkerT(s)]
    /\ UNCHANGED <<workerFrame, micTotal, recording, engPoisoned, events>>

\* A flush that locks the engine the SottoEngine holds now instead of the
\* engine the session was started with.
FlushLockCurrent(s) ==
    /\ sess[s].pc = "flush"
    /\ IF sess[s].audio_buffer = <<>>
       THEN /\ sess' = [sess EXCEPT ![s].pc = "emit", ![s].segments = <<>>]
            /\ UNCHANGED engLock
       ELSE /\ engLock[engineSlot] = Free
            /\ IF engPoisoned[engineSlot]
               THEN /\ sess' = [sess EXCEPT ![s].pc = "flush_err",
                                            ![s].audio_buffer = Truncate(@)]
                    /\ UNCHANGED engLock
               ELSE /\ sess' = [sess EXCEPT ![s].pc = "infer",
                                            ![s].audio_buffer = Truncate(@)]
                    /\ engLock' = [engLock EXCEPT ![engineSlot] = WorkerT(s)]
    /\ UNCHANGED <<workerFrame, micTotal, recording, engPoisoned, events>>

\* Lines 105-130 of transcribe.rs: the empty-buffer return, the truncation
\* and engine.lock().
FlushLock(s) ==
    /\ sess[s].pc = "flush"
    /\ IF sess[s].audio_buffer = <<>>
       THEN /\ sess' = [sess EXCEPT ![s].pc = "emit", ![s].segments = <<>>]
            /\ UNCHANGED engLock
       ELSE /\ engLock[sess[s].engine] = Free
            /\ IF engPoisoned[sess[s].engine]
               THEN /\ sess' = [sess EXCEPT ![s].pc = "flush_err",
                                            ![s].audio_buffer = Truncate(@)]
                    /\ UNCHANGED engLock
               ELSE /\ sess' = [sess EXCEPT ![s].pc = "infer",
                                            ![s].audio_buffer = Truncate(@)]
                    /\ engLock' = [engLock EXCEPT ![sess[s].engine] = WorkerT(s)]
    /\ UNCHANGED <<workerFrame, micTotal, recording, engPoisoned, events>>

\* What engine.transcribe may return.
InferOutcomes == {Ok(t) : t \in RawTexts} \cup {Err("Inference")}

\* An inference that a stop() cuts short.
FlushInferAbortable(s) ==
    /\ sess[s].pc = "infer"
    /\ engLock[sess[s].engine] = WorkerT(s)
    /\ \E r \in InferOutcomes :
         IF sess[s].stop_flag
         THEN sess' = [sess EXCEPT ![s].pc = "flush_err"]
         ELSE IF IsOk(r)
         THEN sess' = [sess EXCEPT ![s].pc = "emit",
                                   ![s].infers = @ + 1,
                                   ![s].infer_res = r,
                                   ![s].audio_buffer = <<>>,
                                   ![s].segments = FlushSegments(r[2])]
         ELSE sess' = [sess EXCEPT ![s].pc = "flush_err",
                                   ![s].infers = @ + 1,
                                   ![s].infer_res = r]
    /\ engLock' = [engLock EXCEPT ![sess[s].engine] = Free]
    /\ UNCHANGED <<workerFrame, micTotal, recording, engPoisoned, events>>

\* A flush that returns without dropping its guard of the engine lock.
FlushInferKeepsLock(s) ==
    /\ sess[s].pc = "infer"
    /\ engLock[sess[s].engine] = WorkerT(s)
    /\ \E r \in InferOutcomes :
         IF IsOk(r)
         THEN sess' = [sess EXCEPT ![s].pc = "emit",
                                   ![s].infers = @ + 1,
                                   ![s].infer_res = r,
                                   ![s].audio_buffer = <<>>,
                                   ![s].segments = FlushSegments(r[2])]
         ELSE sess' = [sess EXCEPT ![s].pc = "flush_err",
                                   ![s].infers = @ + 1,
                                   ![s].infer_res = r]
    /\ UNCHANGED <<workerFrame, micTotal, recording, engLock, engPoisoned, events>>

\* Lines 133-146 of transcribe.rs: transcribe under the engine lock, the
\* buffer cleared after a successful call, the text turned into segments.
\* The `?` of line 133 returns the error with the buffer as it is.
FlushInfer(s) ==
    /\ sess[s].pc = "infer"
    /\ engLock[sess[s].engine] = WorkerT(s)
    /\ \E r \in InferOutcomes :
         IF IsOk(r)
         THEN sess' = [sess EXCEPT ![s].pc = "emit",
                                   ![s].infers = @ + 1,
                                   ![s].infer_res = r,
                                   ![s].audio_buffer = <<>>,
                                   ![s].segments = FlushSegments(r[2])]
         ELSE sess' = [sess EXCEPT ![s].pc = "flush_err",
                                   ![s].infers = @ + 1,
                                   ![s].infer_res = r]
    /\ engLock' = [engLock EXCEPT ![sess[s].engine] = Free]
    /\ UNCHANGED <<workerFrame, micTotal, recording, engPoisoned, events>>

\* Lines 400 and 441 of lib.rs: session.flush(engine)? returned an error,
\* which `?` converts and returns from run_pipeline.
FlushFailed(s) ==
    /\ sess[s].pc = "flush_err"
    /\ sess' = [sess EXCEPT ![s] = PipelineReturn(s, Err("Transcribe"))]
    /\ UNCHANGED <<workerFrame, micTotal, recording, engLock, engPoisoned, events>>

\* The segments notified after a Done of their text.
FinalEventsAfterDone(s, segs) ==
    << Event(s, "Done", JoinSegments(segs)) >>
        \o [i \in 1..Len(segs) |-> Event(s, "Final", segs[i].text)]

\* Each segment of the flush notified twice.
FinalEventsTwice(s, segs) ==
    [i \in 1..(2 * Len(segs)) |-> Event(s, "Final", segs[(i + 1) \div 2].text)]

\* on_final_segment for each segment of the flush.
FinalEvents(s, segs) == [i \in 1..Len(segs) |-> Event(s, "Final", segs[i].text)]

\* The SpeechEnd branch leaving the loop with `break` instead of `return`.
WorkerEmitBreaks(s) ==
    /\ sess[s].pc = "emit"
    /\ events' = events \o FinalEvents(s, sess[s].segments)
    /\ IF sess[s].exit = "speech_end"
       THEN sess' = [sess EXCEPT ![s].pc = "processing", ![s].exit = "stop"]
       ELSE sess' = [sess EXCEPT
                ![s] = PipelineReturn(s, Ok(JoinSegments(sess[s].segments)))]
    /\ UNCHANGED <<workerFrame, micTotal, recording, engLock, engPoisoned>>

\* Lines 401-412 and 442-453 of lib.rs: the text joined, on_final_segment for
\* each segment, capture.stop(), Ok(text).

WorkerEmit(s) ==
    /\ sess[s].pc = "emit"
    /\ events' = events \o FinalEvents(s, sess[s].segments)
    /\ sess' = [sess EXCEPT
           ![s] = PipelineReturn(s, Ok(JoinSegments(sess[s].segments)))]
    /\ UNCHANGED <<workerFrame, micTotal, recording, engLock, engPoisoned>>

\* ------------------------------------- the worker closure of start_listening
\* A worker closure that leaves the flag set.
WorkerKeepsFlag(s) ==
    /\ sess[s].pc = "clear_flag"
    /\ sess' = [sess EXCEPT ![s].pc = "terminal"]
    /\ UNCHANGED <<workerFrame, micTotal, recording, engLock, engPoisoned, events>>

\* Line 264: recording.store(false).
WorkerClearFlag(s) ==
    /\ sess[s].pc = "clear_flag"
    /\ recording' = FALSE
    /\ sess' = [sess EXCEPT ![s].pc = "terminal"]
    /\ UNCHANGED <<workerFrame, micTotal, engLock, engPoisoned, events>>

\* Every result notified as Done with the empty text.
TerminalAlwaysDone(s, result) == Event(s, "Done", <<>>)

\* The terminal state of a pipeline result.
TerminalEvent(s, result) ==
    IF IsOk(result) THEN Event(s, "Done", result[2])
    ELSE Event(s, "Error", result[2])

\* A worker closure that notifies Done and drops an error.
WorkerTerminalDoneOnly(s) ==
    /\ sess[s].pc = "terminal"
    /\ events' = IF IsOk(sess[s].result)
                 THEN Append(events, TerminalEvent(s, sess[s].result))
                 ELSE events
    /\ sess' = [sess EXCEPT ![s].pc = "finished"]
    /\ UNCHANGED <<workerFrame, micTotal, recording, engLock, engPoisoned>>

\* Lines 266-280: on_state_change(Done{text}) or on_state_change(Error{message}).
WorkerTerminal(s) ==
    /\ sess[s].pc = "terminal"
    /\ events' = Append(events, TerminalEvent(s, sess[s].result))
    /\ sess' = [sess EXCEPT ![s].pc = "finished"]
    /\ UNCHANGED <<workerFrame, micTotal, recording, engLock, engPoisoned>>

\* Time passes for a worker in its loop.
Tick(s) ==
    /\ sess[s].pc \in {"loop", "chunks"}
    /\ \/ sess[s].elapsed < MaxDurMs(sess[s].max_duration)
       \/ sess[s].since_partial < PartialIntervalMs
    /\ sess' = [sess EXCEPT
           ![s].elapsed = Min(@ + PartialIntervalMs,
                              MaxDurMs(sess[s].max_duration)),
           ![s].since_partial = PartialIntervalMs]
    /\ UNCHANGED <<workerFrame, micTotal, recording, engLock, engPoisoned, events>>

\* ------------------------------------------------------------ specification
WorkerStep(L, s) ==
    \/ WorkerListening(s)
    \/ WorkerSetup(L, s)
    \/ WorkerLoop(L, s)
    \/ WorkerChunk(s)
    \/ WorkerFeed(s)
    \/ WorkerSilence(s)
    \/ WorkerProcessing(s)
    \/ FlushLock(s)
    \/ FlushInfer(s)
    \/ FlushFailed(s)
    \/ WorkerEmit(s)
    \/ WorkerClearFlag(s)
    \/ WorkerTerminal(s)

CallerStep(L, c) ==
    \/ LoadModel(L, c)
    \/ \E name \in ModelNames : SwitchModel(L, c, name)
    \/ \E d \in L.durations : StartListeningEnter(L, c, d)
    \/ StartListeningCreateSession(c)
    \/ StartListeningSpawn(c)

ThreadStep(L) ==
    \/ \E c \in L.callers : CallerStep(L, c)
    \/ \E s \in Sessions : WorkerStep(L, s)
    \/ \E s \in Sessions : Stop(L, s)
    \/ \E s \in Sessions : Tick(s)

Step(L) ==
    \/ returning = NoResult /\ ThreadStep(L) /\ UNCHANGED auxVars
    \/ Returned

\* Two caller threads racing for two sessions on one loaded engine.
Next == Step(EngineLimits)
Spec == Init /\ [][Next]_vars

\* One caller thread, one session, with more audio.
PipelineNext == Step(PipelineLimits)
PipelineSpec == Init /\ [][PipelineNext]_vars

\* The same threads with the scheduling the program relies on: a worker
\* thread that can run does run, time passes while a worker is in its loop,
\* and a call that returns hands its value to the caller.
FairLimits ==
    [ callers |-> {1}, sessions |-> 1, engines |-> 1, chunk |-> 1,
      capture |-> 2, batch |-> 1, stops |-> 1, durations |-> {1} ]

FairNext == Step(FairLimits)
Fairness ==
    /\ WF_vars(Returned)
    /\ \A s \in Sessions : SF_vars(WorkerStep(FairLimits, s) /\ UNCHANGED auxVars)
    /\ \A s \in Sessions : SF_vars(Tick(s) /\ UNCHANGED auxVars)
FairSpec == Init /\ [][FairNext]_vars /\ Fairness

\* One caller thread that loads and swaps models around one session.
SwitchLimits ==
    [ callers |-> {1}, sessions |-> 1, engines |-> 2, chunk |-> 1,
      capture |-> 2, batch |-> 1, stops |-> 1, durations |-> {1} ]

SwitchNext == Step(SwitchLimits)
SwitchSpec == Init /\ [][SwitchNext]_vars

\* ------------------------------------------------------- SottoEngine::new
\* The engine has been constructed.
Constructed == modelName # "unconstructed"

\* A constructor that takes the configured name as it is.
NewKeepsName ==
    /\ ~Constructed
    /\ modelName' = savedModelName
    /\ UNCHANGED <<innerLock, engineSlot, savedModelName, recording, nextEngine,
                   engLock, engPoisoned, engModel, callerVars, nextSession,
                   sess, micTotal, events, auxVars>>

\* Lines 160-182 of lib.rs: load_config, the migration of a Whisper model
\* name with a save_config whose failure is only logged, and the new engine.
New ==
    /\ ~Constructed
    /\ IF savedModelName \in WHISPER_MODEL_NAMES
       THEN /\ modelName' = default_model_name
            /\ \E saved \in BOOLEAN :
                 savedModelName' = IF saved THEN default_model_name
                                   ELSE savedModelName
       ELSE /\ modelName' = savedModelName
            /\ UNCHANGED savedModelName
    /\ UNCHANGED <<innerLock, engineSlot, recording, nextEngine, engLock,
                   engPoisoned, engModel, callerVars, nextSession, sess,
                   micTotal, events, auxVars>>

\* Before construction: the model name of the persisted configuration.
NewInit ==
    /\ EngineIdle
    /\ modelName = "unconstructed"
    /\ savedModelName \in ModelNames \cup WHISPER_MODEL_NAMES
    /\ input = NoResult
    /\ output = NoResult
    /\ vad = NoVad
    /\ disk = NoDisk
    /\ dl = NoDownload
    /\ completion = NoCompletion

NewNext == New \/ (Constructed /\ Step(SwitchLimits))
NewSpec == NewInit /\ [][NewNext]_vars

\* --------------------------------------------------------- download_model
\* file.size_mb as u64 * 1024 * 1024
expected_size(f) == size_mb(f) * 1024 * 1024

is_model_downloaded == \A f \in Files : disk[f].final.exists

\* An error inside the download of a file: dikto-core goes on to remove
\* the temp file, sotto-core returns the error at once.
DownloadFails(e) ==
    dl' = [dl EXCEPT !.pc = IF dl.crate = "dikto" THEN "cleanup" ELSE "done",
                     !.result = Err(e)]

\* find_model and create_dir_all.
DownloadStart ==
    /\ dl.crate # "none"
    /\ dl.pc = "idle"
    /\ dl.calls < MaxDownloads
    /\ \E found \in BOOLEAN, made \in BOOLEAN :
         dl' = [dl EXCEPT
                  !.calls = @ + 1,
                  !.file = IF found /\ made THEN 1 ELSE 0,
                  !.pc = IF found /\ made THEN "file" ELSE "done",
                  !.result = IF ~found THEN Err("NotFound")
                             ELSE IF ~made THEN Err("Io") ELSE NoResult]
    /\ UNCHANGED <<coreVars, input, output, vad, disk, completion>>

\* The head of the loop over model.files: the end of the loop, a file that
\* exists and is skipped, or reqwest::get and the test of the status.
DownloadFile ==
    /\ dl.pc = "file"
    /\ IF dl.file > NFiles
       THEN dl' = [dl EXCEPT !.pc = "done", !.result = Ok("dir")]
       ELSE IF disk[dl.file].final.exists
       THEN dl' = [dl EXCEPT !.file = @ + 1]
       ELSE \E response \in {"error", "status", "success"} :
              dl' = [dl EXCEPT
                       !.pc = IF response = "success" THEN "create" ELSE "done",
                       !.result = IF response = "error" THEN Err("Http")
                                  ELSE IF response = "status"
                                  THEN Err("DownloadFailed") ELSE NoResult]
    /\ UNCHANGED <<coreVars, input, output, vad, disk, completion>>

\* tokio::fs::File::create(&temp_dest): a new or a truncated temp file.
DownloadCreate ==
    /\ dl.pc = "create"
    /\ \E created \in BOOLEAN :
         IF created
         THEN /\ disk' = [disk EXCEPT ![dl.file].temp =
                            [Absent EXCEPT !.exists = TRUE]]
              /\ dl' = [dl EXCEPT !.pc = "stream"]
         ELSE /\ DownloadFails("Io")
              /\ UNCHANGED disk
    /\ UNCHANGED <<coreVars, input, output, vad, completion>>

\* One turn of the chunk loop: a chunk written, an error of the stream or
\* of the write, or the end of the stream.  The lengths a file reaches are
\* the ends of the window around the expected size, the lengths next to
\* them, and twice the expected size.
DownloadChunk ==
    /\ dl.pc = "stream"
    /\ \/ \E n \in LET expected == expected_size(dl.file)
                       tolerance == expected \div 10
                   IN  { expected - tolerance - 1, expected - tolerance,
                         expected, expected + tolerance,
                         expected + tolerance + 1, 2 * expected } :
            /\ n > disk[dl.file].temp.size
            /\ disk' = [disk EXCEPT ![dl.file].temp.size = n]
            /\ UNCHANGED dl
       \/ \E e \in {"Http", "Io"} : DownloadFails(e) /\ UNCHANGED disk
       \/ dl' = [dl EXCEPT !.pc = "flush"] /\ UNCHANGED disk
    /\ UNCHANGED <<coreVars, input, output, vad, completion>>

\* out.flush() and drop(out); sotto-core goes straight to the rename.
DownloadFlush ==
    /\ dl.pc = "flush"
    /\ \E flushed \in BOOLEAN :
         IF flushed
         THEN /\ disk' = [disk EXCEPT ![dl.file].temp.complete = TRUE]
              /\ dl' = [dl EXCEPT !.pc = IF dl.crate = "dikto" THEN "verify"
                                         ELSE "rename"]
         ELSE /\ DownloadFails("Io")
              /\ UNCHANGED disk
    /\ UNCHANGED <<coreVars, input, output, vad, completion>>

\* Lines 258-289 of dikto-core models.rs: the SHA-256 test when the file
\* has a reference hash, the size test otherwise.
DownloadVerify ==
    /\ dl.pc = "verify"
    /\ IF dl.sha256[dl.file]
       THEN \E hash \in {"equal", "differs", "task failed"} :
              IF hash = "equal"
              THEN /\ disk' = [disk EXCEPT ![dl.file].temp.verified = TRUE]
                   /\ dl' = [dl EXCEPT !.pc = "rename"]
              ELSE /\ DownloadFails("DownloadFailed")
                   /\ UNCHANGED disk
       ELSE \E metadata \in BOOLEAN :
              IF ~metadata
              THEN /\ DownloadFails("Io")
                   /\ UNCHANGED disk
              ELSE IF LET actual_size == disk[dl.file].temp.size
                          tolerance == expected_size(dl.file) \div 10
                      IN  actual_size < expected_size(dl.file) - tolerance
              THEN /\ DownloadFails("DownloadFailed")
                   /\ UNCHANGED disk
              ELSE /\ disk' = [disk EXCEPT ![dl.file].temp.verified = TRUE]
                   /\ dl' = [dl EXCEPT !.pc = "rename"]
    /\ UNCHANGED <<coreVars, input, output, vad, completion>>

\* tokio::fs::rename(&temp_dest, &dest)
DownloadRename ==
    /\ dl.pc = "rename"
    /\ \E renamed \in BOOLEAN :
         IF renamed
         THEN /\ disk' = [disk EXCEPT ![dl.file].final = disk[dl.file].temp,
                                      ![dl.file].temp = Absent]
              /\ dl' = [dl EXCEPT !.pc = "file", !.file = @ + 1]
         ELSE /\ DownloadFails("Io")
              /\ UNCHANGED disk
    /\ UNCHANGED <<coreVars, input, output, vad, completion>>

\* Lines 298-302 of dikto-core models.rs: remove_file(&temp_dest) on any
\* error of the download of the file, then the error is returned.
DownloadCleanup ==
    /\ dl.pc = "cleanup"
    /\ disk' = [disk EXCEPT ![dl.file].temp = Absent]
    /\ dl' = [dl EXCEPT !.pc = "done"]
    /\ UNCHANGED <<coreVars, input, output, vad, completion>>

\* download_model has returned dl.result.
DownloadReturned ==
    /\ dl.pc = "done"
    /\ dl' = [dl EXCEPT !.pc = "idle"]
    /\ UNCHANGED <<coreVars, input, output, vad, disk, completion>>

\* One of the two download_model functions, a model whose files have a
\* reference hash or none, and a models directory in which each file of the
\* model is present and whole, or absent.
DownloadInit ==
    /\ CoreInit
    /\ input = NoResult
    /\ output = NoResult
    /\ vad = NoVad
    /\ \E present \in [Files -> BOOLEAN] :
         disk = [f \in Files |->
                   [final |-> IF present[f]
                              THEN [exists |-> TRUE, size |-> expected_size(f),
                                    complete |-> TRUE, verified |-> TRUE]
                              ELSE Absent,
                    temp |-> Absent]]
    /\ \E crate \in {"dikto", "sotto"}, sha \in [Files -> BOOLEAN] :
         dl = [NoDownload EXCEPT !.crate = crate, !.sha256 = sha]
    /\ completion = NoCompletion

DownloadNext ==
    \/ DownloadStart
    \/ DownloadFile
    \/ DownloadCreate
    \/ DownloadChunk
    \/ DownloadFlush
    \/ DownloadVerify
    \/ DownloadRename
    \/ DownloadCleanup
    \/ DownloadReturned

DownloadSpec == DownloadInit /\ [][DownloadNext]_vars

\* ---------------------------------- waiting for the completion of a session
\* A notification that unparks nobody.
notify_nobody(c) == c

\* Condvar::notify_all: a thread parked in wait is unparked; a notification
\* that finds no thread parked is not remembered.
notify_all(c) == [c EXCEPT !.woken = @ \/ c.pc = "waiting"]

\* mcp.rs 92-107, listen.rs 35-52: on_state_change(Done | Error) of the
\* callback given to start_listening, run by the worker of the session with
\* its terminal notification: result.lock(), *result = Some(..), notify_all,
\* and the guard dropped at the end of the arm.
OnStateChange ==
    /\ ~completion.stored
    /\ completion.mutex = "free"
    /\ \E i \in 1..Len(events) :
         /\ events[i][1] = 1
         /\ IsTerminal(events[i])
         /\ completion' = notify_all(
                [completion EXCEPT
                    !.result = IF events[i][2] = "Done" THEN Ok(events[i][3])
                               ELSE Err(events[i][3]),
                    !.stored = TRUE])
    /\ UNCHANGED <<coreVars, input, output, vad, disk, dl>>

\* mcp.rs 190 and listen.rs 84, completion.result.lock() once
\* start_listening has returned the handle, and the lock taken again when
\* Condvar::wait returns.
WaiterLock ==
    /\ \/ completion.pc = "idle" /\ sess[1].pc # "none"
       \/ completion.pc = "lock"
    /\ completion.mutex = "free"
    /\ completion' = [completion EXCEPT !.mutex = "waiter", !.pc = "test"]
    /\ UNCHANGED <<coreVars, input, output, vad, disk, dl>>

\* mcp.rs 191-194 and listen.rs 85-89: while guard.is_none() the thread
\* waits, which unlocks the mutex and parks the thread in one step; else
\* guard.take().unwrap() and the guard is dropped.
WaiterTest ==
    /\ completion.pc = "test"
    /\ IF completion.result = NoResult
       THEN completion' = [completion EXCEPT !.mutex = "free",
                                             !.pc = "waiting",
                                             !.woken = FALSE,
                                             !.waited = TRUE]
       ELSE completion' = [completion EXCEPT !.mutex = "free",
                                             !.pc = "done",
                                             !.taken = completion.result,
                                             !.result = NoResult]
    /\ UNCHANGED <<coreVars, input, output, vad, disk, dl>>

\* Condvar::wait returns after a notification.
WaiterWake ==
    /\ completion.pc = "waiting"
    /\ completion.woken
    /\ completion' = [completion EXCEPT !.pc = "lock", !.woken = FALSE]
    /\ UNCHANGED <<coreVars, input, output, vad, disk, dl>>

\* Condvar::wait returns with no notification, as it is allowed to.
SpuriousWake ==
    /\ completion.pc = "waiting"
    /\ ~completion.woken
    /\ completion.spurious < MaxSpurious
    /\ completion' = [completion EXCEPT !.pc = "lock", !.spurious = @ + 1]
    /\ UNCHANGED <<coreVars, input, output, vad, disk, dl>>

\* One session, the callback given to it and the thread that waits for its
\* result: threads that can run do run; a spurious wakeup may never happen.
WaitNext ==
    \/ FairNext
    \/ OnStateChange
    \/ WaiterLock
    \/ WaiterTest
    \/ WaiterWake
    \/ SpuriousWake

WaitFairness ==
    /\ Fairness
    /\ WF_vars(OnStateChange)
    /\ WF_vars(WaiterLock)
    /\ WF_vars(WaiterTest)
    /\ WF_vars(WaiterWake)

WaitSpec == Init /\ [][WaitNext]_vars /\ WaitFairness

\* ------------------------------------------- the text functions on their own
\* is_hallucination applied to a text.
ApplyIsHallucination ==
    /\ input \in Texts
    /\ output = NoResult
    /\ output' = <<"is_hallucination", is_hallucination(input)>>
    /\ UNCHANGED <<coreVars, input, vad, disk, dl, completion>>

\* The tail of flush applied to the text that engine.transcribe returned.
ApplyFlushSegments ==
    /\ input \in Texts
    /\ output = NoResult
    /\ output' = <<"flush", FlushSegments(input)>>
    /\ UNCHANGED <<coreVars, input, vad, disk, dl, completion>>

TextInit ==
    /\ CoreInit
    /\ input \in Texts
    /\ output = NoResult
    /\ vad = NoVad
    /\ disk = NoDisk
    /\ dl = NoDownload
    /\ completion = NoCompletion

TextNext == ApplyIsHallucination \/ ApplyFlushSegments
TextSpec == TextInit /\ [][TextNext]_vars

\* ------------------------------------------------ VadProcessor on its own
\* The length of one chunk in milliseconds.
ChunkMs == 30

\* Speech probabilities of a chunk and thresholds, in hundredths.
Probs == {0, 35, 90}
SpeechThresholds == {35, 50}
SilenceDurations == {30, 60}

\* A detector that reports every speaking chunk as a start of speech.
process_chunk_level(v, prob) ==
    IF prob > v.speech_threshold
    THEN [ v |-> [v EXCEPT !.is_speaking = TRUE, !.silence_ms = 0],
           event |-> "SpeechStart" ]
    ELSE IF ~v.is_speaking
    THEN [ v |-> v, event |-> "Silence" ]
    ELSE IF v.silence_ms + ChunkMs >= v.silence_duration_ms
    THEN [ v |-> [v EXCEPT !.is_speaking = FALSE, !.silence_ms = 0],
           event |-> "SpeechEnd" ]
    ELSE [ v |-> [v EXCEPT !.silence_ms = @ + ChunkMs],
           event |-> "SpeechContinue" ]

\* VadProcessor::process_chunk on a chunk of the given speech probability:
\* the detector after the call and the event returned.
process_chunk(v, prob) ==
    IF prob > v.speech_threshold
    THEN IF v.is_speaking
         THEN [ v |-> [v EXCEPT !.silence_ms = 0], event |-> "SpeechContinue" ]
         ELSE [ v |-> [v EXCEPT !.is_speaking = TRUE, !.silence_ms = 0],
                event |-> "SpeechStart" ]
    ELSE IF ~v.is_speaking
    THEN [ v |-> v, event |-> "Silence" ]
    ELSE IF v.silence_ms + ChunkMs >= v.silence_duration_ms
    THEN [ v |-> [v EXCEPT !.is_speaking = FALSE, !.silence_ms = 0],
           event |-> "SpeechEnd" ]
    ELSE [ v |-> [v EXCEPT !.silence_ms = @ + ChunkMs],
           event |-> "SpeechContinue" ]

\* One call of process_chunk, recorded with its chunk and its event.
ProcessChunk ==
    /\ vad.live
    /\ Len(vad.probs) < MaxChunks
    /\ \E prob \in Probs :
         LET r == process_chunk(vad, prob)
         IN  vad' = [r.v EXCEPT !.probs = Append(@, prob),
                                !.log = Append(@, r.event)]
    /\ UNCHANGED <<coreVars, input, output, disk, dl, completion>>

VadInit ==
    /\ CoreInit
    /\ input = NoResult
    /\ output = NoResult
    /\ \E th \in SpeechThresholds, ms \in SilenceDurations :
         vad = VadNew([speech_threshold |-> th, silence_duration_ms |-> ms])
    /\ disk = NoDisk
    /\ dl = NoDownload
    /\ completion = NoCompletion

VadNext == ProcessChunk
VadSpec == VadInit /\ [][VadNext]_vars

\* ------------------------------------------- dikto-core: the configuration
\* Strings are sequences of characters.
S_auto == <<"a", "u", "t", "o">>
S_en == <<"e", "n">>
S_option == <<"o", "p", "t", "i", "o", "n">>
S_command == <<"c", "o", "m", "m", "a", "n", "d">>
S_control == <<"c", "o", "n", "t", "r", "o", "l">>
S_shift == <<"s", "h", "i", "f", "t">>
S_option_r == S_option \o <<"+", "r">>

\* An f32 in hundredths, and the f32 that is not a number.
F32(n) == <<"f32", n>>
NaN == <<"NaN", 0>>

None == <<"None">>
Some(v) == <<"Some", v>>

\* char::is_ascii_lowercase
is_ascii_lowercase(ch) ==
    ch \in {"a", "b", "c", "d", "e", "f", "g", "h", "i", "j", "k", "l", "m",
            "n", "o", "p", "q", "r", "s", "t", "u", "v", "w", "x", "y", "z"}

\* u32::clamp
clamp(x, lo, hi) == IF x < lo THEN lo ELSE IF x > hi THEN hi ELSE x

\* f32::clamp: a NaN is returned as it is.
clamp_f32(x, lo, hi) ==
    IF x = NaN THEN NaN ELSE F32(clamp(x[2], lo, hi))

\* str::split(ch)
RECURSIVE split(_, _)
split(s, ch) ==
    IF \A i \in 1..Len(s) : s[i] # ch
    THEN << s >>
    ELSE LET i == CHOOSE k \in 1..Len(s) :
                      s[k] = ch /\ \A j \in 1..(k - 1) : s[j] # ch
         IN  << SubSeq(s, 1, i - 1) >> \o split(SubSeq(s, i + 1, Len(s)), ch)

VALID_MODIFIERS == {S_option, S_command, S_control, S_shift}

is_valid_shortcut(shortcut) ==
    LET raw == split(shortcut, "+")
        parts == [i \in 1..Len(raw) |-> Trim(raw[i])]
        modifier_count ==
            Cardinality({i \in 1..Len(parts) : parts[i] \in VALID_MODIFIERS})
        key_count ==
            Cardinality({i \in 1..Len(parts) : parts[i] \notin VALID_MODIFIERS})
    IN  IF Len(parts) < 2 THEN FALSE
        ELSE modifier_count >= 1 /\ key_count = 1

\* DiktoConfig::default
DefaultConfig ==
    [ model_name |-> "parakeet-tdt-0.6b-v2", language |-> S_en,
      max_duration |-> 30, silence_duration_ms |-> 1500,
      speech_threshold |-> F32(35), global_shortcut |-> Some(S_option_r),
      auto_paste |-> TRUE, auto_copy |-> TRUE, activation_mode |-> "hold" ]

\* DiktoConfig::validate
validate(c) ==
    [c EXCEPT
        !.max_duration = clamp(@, 1, 120),
        !.silence_duration_ms = clamp(@, 250, 10000),
        !.speech_threshold = clamp_f32(@, 1, 99),
        !.language =
            IF @ # S_auto
            THEN IF /\ Len(@) >= 2
                    /\ Len(@) <= 4
                    /\ \A i \in 1..Len(@) : is_ascii_lowercase(@[i])
                 THEN @ ELSE S_en
            ELSE @,
        !.global_shortcut =
            IF @ = None THEN Some(S_option_r)
            ELSE IF ~is_valid_shortcut(@[2]) THEN Some(S_option_r)
            ELSE @]

\* The values the fields of a configuration are drawn from.
Durations == {0, 30, 121}
SilenceMs == {249, 1500, 10001}
FiniteThresholds == {F32(0), F32(35), F32(100)}
Languages ==
    { S_auto, S_en, <<"e">>, <<"E", "N">>, <<"e", "n", "g", "l", "i">>, <<>> }
Shortcuts ==
    { None, Some(S_option_r), Some(S_option \o <<" ", "+", " ", "r">>),
      Some(<<"r">>), Some(S_option), Some(S_option_r \o <<"+", "s">>),
      Some(<<>>), Some(S_shift \o <<"+">> \o S_option_r),
      Some(S_option \o <<"+">>) }

ConfigsOver(thresholds) ==
    { [DefaultConfig EXCEPT !.max_duration = d, !.silence_duration_ms = ms,
                            !.speech_threshold = th, !.language = lang,
                            !.global_shortcut = sc, !.activation_mode = am] :
        d \in Durations, ms \in SilenceMs, th \in thresholds,
        lang \in Languages, sc \in Shortcuts, am \in {"hold", "toggle"} }

\* What serde_json reads from a file: numbers are finite.
FileConfigs == ConfigsOver(FiniteThresholds)
\* What a caller may pass to save_config.
CallerConfigs == ConfigsOver(FiniteThresholds \cup {NaN})

\* str::parse::<u32> on a string of digits (with its value) or another one.
parse_u32(v) == IF v[1] = "digits" THEN Ok(v[2]) ELSE Err("ParseInt")

\* The environment: DIKTO_MODEL, DIKTO_LANGUAGE and DIKTO_MAX_DURATION, each
\* unset or set.
Envs ==
    [ model : {None, Some("other")},
      language : {None, Some(<<"E", "N">>)},
      max_duration : {None, Some(<<"letters", 0>>), Some(<<"digits", 200>>)} ]

\* Lines 175-233 of config.rs: load_config on a configuration file that
\* is missing, unreadable, unparsable, or holds the configuration c (with or
\* without the key activation_mode), or with no home directory.
load_config(file, c, has_activation_mode, env) ==
    IF file = "nohome" THEN DefaultConfig
    ELSE LET read == IF file = "json"
                     THEN IF has_activation_mode THEN c
                          ELSE [c EXCEPT !.activation_mode = "toggle"]
                     ELSE DefaultConfig
             m == IF env.model = None THEN read
                  ELSE [read EXCEPT !.model_name = env.model[2]]
             l == IF env.language = None THEN m
                  ELSE [m EXCEPT !.language = env.language[2]]
             d == IF env.max_duration = None THEN l
                  ELSE IF IsErr(parse_u32(env.max_duration[2])) THEN l
                  ELSE [l EXCEPT !.max_duration = parse_u32(env.max_duration[2])[2]]
         IN  validate(d)

\* serde_json::to_string_pretty: an f32 that is not finite is written null.
to_json(c) ==
    [c EXCEPT !.speech_threshold = IF @ = NaN THEN <<"null", 0>> ELSE @]

\* Lines 237-255 of config.rs: save_config, with the step at which the file
\* system fails, if any: what is returned and the file written.
save_config(c, io) ==
    LET json == to_json(validate(c))
    IN  CASE io \in {"nohome", "create_dir_all", "write"} ->
               [ret |-> Err("Io"), written |-> None]
          [] io = "set_permissions" ->
               [ret |-> Err("Io"), written |-> Some(json)]
          [] OTHER ->
               [ret |-> Ok(<<>>), written |-> Some(json)]

ApplyLoadConfig ==
    /\ input[1] = "load_config"
    /\ output = NoResult
    /\ \E env \in Envs :
         output' = <<"load_config", load_config(input[2], input[3], input[4], env)>>
    /\ UNCHANGED <<coreVars, input, vad, disk, dl, completion>>

ApplySaveConfig ==
    /\ input[1] = "save_config"
    /\ output = NoResult
    /\ \E io \in {"ok", "nohome", "create_dir_all", "write", "set_permissions"} :
         output' = <<"save_config", save_config(input[3], io)>>
    /\ UNCHANGED <<coreVars, input, vad, disk, dl, completion>>

ConfigInit ==
    /\ CoreInit
    /\ \/ \E file \in {"nohome", "missing", "unreadable", "corrupt"} :
            input = <<"load_config", file, DefaultConfig, FALSE>>
       \/ \E c \in FileConfigs, has \in BOOLEAN :
            input = <<"load_config", "json", c, has>>
       \/ \E c \in CallerConfigs :
            input = <<"save_config", "none", c, FALSE>>
    /\ output = NoResult
    /\ vad = NoVad
    /\ disk = NoDisk
    /\ dl = NoDownload
    /\ completion = NoCompletion

ConfigNext == ApplyLoadConfig \/ ApplySaveConfig
ConfigSpec == ConfigInit /\ [][ConfigNext]_vars

InPipeline(s) == sess[s].pc \notin {"none", "terminal", "finished"}

\* ------------------------------------------------------------- properties
Terminals(log) == Count(log, "Done") + Count(log, "Error")
Last(log) == log[Len(log)]
Has(log, kind) == Count(log, kind) > 0

\* The call that is returning is start_listening.
StartListeningReturns(ret) == ret # NoResult /\ ret[2] = "start_listening"

\* At most one session is in its pipeline, the recording flag tells whether
\* one is, and a caller is past the recording test only while it holds the
\* inner lock and no session is active.
SingleFlightInv ==
    /\ Cardinality({s \in Sessions : InPipeline(s)}) <= 1
    /\ recording <=> \E s \in Sessions : InPipeline(s)
    /\ \A c \in Callers :
         callerPc[c] # "idle" => innerLock = CallerT(c) /\ ~recording
    /\ StartListeningReturns(returning) /\ IsOk(returning[3]) =>
         \A s \in Sessions : InPipeline(s) <=> s = returning[3][2]
    /\ StartListeningReturns(returning)
         /\ returning[3] = Err("AlreadyRecording") => recording

\* A worker is started only when none is active; a start_listening that
\* returns while a session is active returns AlreadyRecording.
SingleFlightStep ==
    /\ nextSession' # nextSession =>
         ~recording /\ recording' /\ nextSession' = nextSession + 1
    /\ recording /\ StartListeningReturns(returning') =>
         /\ returning'[3] = Err("AlreadyRecording")
         /\ sess' = sess
         /\ nextSession' = nextSession

\* C1: single-flight recording.  At most one session is active (between the
\* successful start_listening and the clearing of the recording flag) at a
\* time, and the recording flag tells whether one is; a caller is past the
\* recording test only while it holds the inner lock and no session is
\* active, so two concurrent calls never both succeed; a start_listening
\* made while a session is active returns AlreadyRecording and starts no
\* worker, and a worker is started only when none is active.
SingleFlight == []SingleFlightInv /\ [][SingleFlightStep]_vars

\* A second caller is turned away while the first caller's session records.
SingleFlightWitness ==
    /\ returning = <<2, "start_listening", Err("AlreadyRecording")>>
    /\ sess[1].pc = "loop"
    /\ sess[2].pc = "none"

\* No terminal notification before the worker has finished, and one, that of
\* the pipeline's result, once it has.
TerminalCountInv ==
    \A s \in Sessions :
        LET log == SessionLog(s)
        IN  /\ Terminals(log) = IF sess[s].pc = "finished" THEN 1 ELSE 0
            /\ sess[s].pc = "finished" =>
                 Last(log) = TerminalEvent(s, sess[s].result)

\* C2: every session started by a successful start_listening delivers
\* exactly one terminal on_state_change, Done or Error: none before the
\* worker has finished, one (the one of the pipeline's result) once it has,
\* and every started session does finish, whichever way the worker exits.
ExactlyOneTerminal ==
    /\ []TerminalCountInv
    /\ \A s \in Sessions : (sess[s].pc # "none") ~> (sess[s].pc = "finished")

\* A session that ran into its timeout has delivered its Done.
ExactlyOneTerminalWitness ==
    /\ sess[1].pc = "finished"
    /\ sess[1].exit = "timeout"
    /\ IsOk(sess[1].result)
    /\ Last(SessionLog(1))[2] = "Done"

\* The place of a callback in the order Listening, partials, silence,
\* Processing, final segments, terminal state.
Rank(kind) ==
    CASE kind = "Listening" -> 1
      [] kind = "Partial" -> 2
      [] kind = "Silence" -> 3
      [] kind = "Processing" -> 4
      [] kind = "Final" -> 5
      [] OTHER -> 6

\* The callbacks of a log are in that order, and only partials and final
\* segments repeat.
InOrder(log) ==
    /\ log # <<>> => log[1][2] = "Listening"
    /\ \A i, j \in 1..Len(log) :
         i < j => /\ Rank(log[i][2]) <= Rank(log[j][2])
                  /\ Rank(log[i][2]) = Rank(log[j][2]) =>
                       log[i][2] \in {"Partial", "Final"}

\* on_silence is delivered only for an exit through a SpeechEnd that
\* followed a SpeechStart, and then once, right before Processing.
SilenceOnlyOnSpeechEnd(s) ==
    /\ sess[s].pc = "silence" => sess[s].speech_detected
    /\ Has(SessionLog(s), "Silence") <=>
         sess[s].exit = "speech_end" /\ sess[s].pc # "silence"

\* C3 as stated: Listening first and once, then partials, then on_silence
\* (only on a SpeechEnd exit after speech), then Processing exactly once,
\* then the terminal state; Processing precedes every terminal state.
OrderAsClaimed ==
    \A s \in Sessions :
        LET log == SessionLog(s)
        IN  /\ InOrder(log)
            /\ SilenceOnlyOnSpeechEnd(s)
            /\ Terminals(log) > 0 => Count(log, "Processing") = 1

\* The pipeline result of a session that reached its flush.
ReachedFlush(result) == IsOk(result) \/ result = Err("Transcribe")

\* C3, amended: the callbacks come in the order Listening (first and once),
\* partials, on_silence (only on a SpeechEnd exit after speech), Processing
\* (at most once), final segments, terminal state.  Processing precedes
\* every Done and every Error raised by the flush; a session whose capture
\* start, VAD construction or VAD processing fails delivers its Error
\* without any Processing.
CallbackOrder ==
    \A s \in Sessions :
        LET log == SessionLog(s)
        IN  /\ InOrder(log)
            /\ SilenceOnlyOnSpeechEnd(s)
            /\ sess[s].result # NoResult =>
                 Count(log, "Processing") =
                     IF ReachedFlush(sess[s].result) THEN 1 ELSE 0

\* A session that notified a partial and then failed in the VAD has ended in
\* Error without Processing.
CallbackOrderWitness ==
    /\ sess[1].pc = "finished"
    /\ sess[1].result = Err("VadProcess")
    /\ Has(SessionLog(1), "Partial")
    /\ ~Has(SessionLog(1), "Processing")
    /\ Last(SessionLog(1))[2] = "Error"

\* A terminal notification is the last callback of its session, delivered by
\* the worker's last step.
TerminalIsLastInv ==
    \A s \in Sessions :
        LET log == SessionLog(s)
        IN  \A i \in 1..Len(log) :
              IsTerminal(log[i]) => i = Len(log) /\ sess[s].pc = "finished"

\* A finished session stays finished and delivers no callback.
FinishedStaysSilent ==
    \A s \in Sessions :
        sess[s].pc = "finished" =>
            /\ sess'[s].pc = "finished"
            /\ SelectSeq(events', LAMBDA e : e[1] = s) = SessionLog(s)

\* C4: terminal states are final.  A terminal notification is the last
\* callback of its session, it is delivered by the worker's last step, and
\* no callback of a finished session is delivered afterwards.
TerminalIsFinal == []TerminalIsLastInv /\ [][FinishedStaysSilent]_vars

\* A session that ended through a SpeechEnd and was stopped outside its
\* inference has finished with a Done that follows its final segment.
TerminalIsFinalWitness ==
    /\ sess[1].pc = "finished"
    /\ Has(SessionLog(1), "Final")
    /\ Last(SessionLog(1))[2] = "Done"
    /\ sess[1].stops > 0
    /\ ~sess[1].stop_in_infer
    /\ sess[1].exit = "speech_end"

\* start_listening answers AlreadyRecording only while the flag is set.
RejectedOnlyWhileRecording ==
    StartListeningReturns(returning) /\ returning[3] = Err("AlreadyRecording")
        => is_recording

\* C5: after a successfully started session the recording flag is
\* eventually cleared on every exit path, so is_recording() becomes false;
\* the worker that has left the pipeline clears it in its next step, and
\* start_listening answers AlreadyRecording only while the flag is set.
FlagEventuallyCleared ==
    /\ is_recording ~> ~is_recording
    /\ \A s \in Sessions : (sess[s].pc = "clear_flag") ~> ~is_recording
    /\ []RejectedOnlyWhileRecording

\* A session that failed has cleared the flag before notifying its Error.
FlagEventuallyClearedWitness ==
    /\ sess[1].pc = "terminal"
    /\ IsErr(sess[1].result)
    /\ ~is_recording
    /\ sess[1].stops = 0

\* A worker step that leaves flush starts an inference exactly when the
\* buffer holds audio, and a step that leaves the inference has made it.
FlushStep ==
    \A s \in Sessions :
        /\ sess[s].pc = "flush" /\ sess'[s].pc # "flush" =>
             (sess[s].audio_buffer # <<>> <=> sess'[s].pc = "infer")
        /\ sess'[s].pc = "infer" /\ sess[s].pc # "infer" =>
             sess[s].pc = "flush"
        /\ sess[s].pc = "infer" /\ sess'[s].pc # "infer" =>
             sess'[s].infers = 1
        /\ sess'[s].infers # sess[s].infers => sess[s].pc = "infer"

\* Each flush follows a Processing notification, so a session flushes as
\* often as it notifies Processing.
InferenceOnceInv ==
    \A s \in Sessions :
        /\ sess[s].infers <= 1
        /\ Count(SessionLog(s), "Processing") <= 1
        /\ sess[s].pc \in {"flush", "infer", "emit"} =>
             Count(SessionLog(s), "Processing") = 1
        /\ sess[s].pc = "infer" =>
             sess[s].audio_buffer # <<>> /\ sess[s].infers = 0
        /\ sess[s].pc = "emit" =>
             sess[s].audio_buffer = <<>> /\ IsOk(sess[s].infer_res) = (sess[s].infers = 1)

\* C6: in each session transcribe is invoked at most once, exactly once when
\* the session buffer is non-empty at flush time, and no exit path
\* (SpeechEnd, stop, timeout) flushes the session twice.
InferenceOnce == []InferenceOnceInv /\ [][FlushStep]_vars

\* The flush of a SpeechEnd exit has run its one inference.
InferenceOnceWitness ==
    /\ sess[1].pc = "emit"
    /\ sess[1].infers = 1
    /\ sess[1].exit = "speech_end"
    /\ sess[1].segments # <<>>

\* C7 as stated: a failure to start the capture or to construct the VAD is
\* returned by start_listening; no session is started for that attempt, the
\* recording flag is not set and no callback is delivered.
ConstructionFailuresSynchronous ==
    \A s \in Sessions :
        sess[s].result \in {Err("Audio"), Err("VadInit")} =>
            /\ sess[s].pc = "none"
            /\ SessionLog(s) = <<>>

\* What a rejected start_listening leaves alone.
sessionFrame ==
    <<recording, engineVars, engLock, engPoisoned, nextSession, sess,
      micTotal, events>>

\* A start_listening that returns an error has released the inner lock and
\* changed nothing else; which error it is follows from the flag and the
\* engine slot.
RejectedStartStep ==
    StartListeningReturns(returning') /\ IsErr(returning'[3]) =>
        /\ UNCHANGED sessionFrame
        /\ returning'[3] = Err("AlreadyRecording") <=> recording
        /\ returning'[3] = Err("NoModel") <=> ~recording /\ engineSlot = 0
        /\ innerLock' = Free

\* C8: a start_listening that fails with AlreadyRecording, NoModel or a
\* poisoned engine lock changes nothing: the recording flag, the loaded
\* engine, the configuration, the sessions and their workers and the
\* callbacks delivered are the same after the call as before it.
RejectedStartChangesNothing == [][RejectedStartStep]_vars

\* A caller is turned away while the running session is inside its inference.
RejectedStartWitness ==
    /\ StartListeningReturns(returning)
    /\ returning[3] = Err("AlreadyRecording")
    /\ \E s \in Sessions : sess[s].pc = "infer" /\ SessionLog(s) # <<>>

\* The flag is false until the first stop() and true after it.
StopFlagInv ==
    \A s \in Sessions :
        /\ sess[s].stops = 0 => ~sess[s].stop_flag
        /\ sess[s].stops >= 1 => sess[s].stop_flag /\ ~is_active(s)
        /\ is_active(s) <=> ~sess[s].stop_flag

\* No step resets the flag, every stop() leaves it set, and a new handle
\* starts with the flag false.
StopFlagStep ==
    \A s \in Sessions :
        /\ sess[s].stop_flag => sess'[s].stop_flag
        /\ sess'[s].stops # sess[s].stops => sess'[s].stop_flag
        /\ sess[s].pc = "none" /\ sess'[s].pc # "none" => ~sess'[s].stop_flag

\* C9: the cancellation flag of a handle starts false, stop() sets it, and
\* no step of a caller or of the worker resets it; after one or more stop()
\* calls the flag is true and is_active() is false, and is_active() is the
\* negation of the flag.
StopFlagMonotonic == []StopFlagInv /\ [][StopFlagStep]_vars

\* stop() was called twice on the handle of a session that went on to finish.
StopFlagWitness ==
    /\ sess[1].stops >= 2
    /\ sess[1].stop_flag
    /\ ~is_active(1)
    /\ sess[1].pc = "finished"

\* The result run_pipeline returns for an inference outcome.
ResultOfInference(r) ==
    IF IsOk(r) THEN Ok(JoinSegments(FlushSegments(r[2])))
    ELSE Err("Transcribe")

\* C10: a stop() issued while the worker is inside the inference call of
\* flush neither aborts nor repeats the inference: the call is made once,
\* and the session ends with the Done or Error of its outcome.
StopDuringInference ==
    \A s \in Sessions :
        sess[s].stop_in_infer =>
            \/ sess[s].pc = "infer" /\ sess[s].infers = 0
            \/ /\ sess[s].infers = 1
               /\ sess[s].infer_res \in InferOutcomes
               /\ sess[s].pc \in {"emit", "flush_err", "clear_flag", "terminal",
                                  "finished"}
               /\ sess[s].pc = "emit" =>
                    /\ IsOk(sess[s].infer_res)
                    /\ sess[s].segments = FlushSegments(sess[s].infer_res[2])
               /\ sess[s].pc = "flush_err" => IsErr(sess[s].infer_res)
               /\ sess[s].pc \notin {"emit", "flush_err"} =>
                    sess[s].result = ResultOfInference(sess[s].infer_res)
               /\ sess[s].pc = "finished" =>
                    Last(SessionLog(s)) =
                        TerminalEvent(s, ResultOfInference(sess[s].infer_res))

\* A session stopped during its inference has ended in the Done of the text.
StopDuringInferenceWitness ==
    /\ sess[1].pc = "finished"
    /\ sess[1].stop_in_infer
    /\ sess[1].result = Ok(<<"h", "i">>)
    /\ Last(SessionLog(1)) = Event(1, "Done", <<"h", "i">>)

\* The callbacks that end a session whose loop was left for the flush: the
\* Processing notification, the segments of the flush, the terminal state.
FlushTail(s) ==
    LET segs == IF IsOk(sess[s].infer_res)
                THEN FlushSegments(sess[s].infer_res[2])
                ELSE <<>>
    IN  << Event(s, "Processing", <<>>) >> \o FinalEvents(s, segs)
            \o << TerminalEvent(s, sess[s].result) >>

EndsWith(log, tail) ==
    /\ Len(log) >= Len(tail)
    /\ SubSeq(log, Len(log) - Len(tail) + 1, Len(log)) = tail

\* The result of a session that flushed: the empty text when the buffer was
\* empty, else what the one inference gave.
ResultOfFlush(s) ==
    IF sess[s].infers = 0 THEN Ok(<<>>)
    ELSE ResultOfInference(sess[s].infer_res)

\* A session that left its loop on stop() notifies Processing once it has
\* left, runs an inference only on buffered audio, and ends with Processing,
\* the segments of the flush and the terminal state of the flush result.
StopExitInv ==
    \A s \in Sessions :
        sess[s].exit = "stop" =>
            /\ sess[s].stop_flag
            /\ sess[s].pc = "processing" => ~Has(SessionLog(s), "Processing")
            /\ sess[s].pc = "infer" => sess[s].audio_buffer # <<>>
            /\ sess[s].pc \in {"clear_flag", "terminal", "finished"} =>
                 sess[s].result = ResultOfFlush(s)
            /\ sess[s].pc = "finished" => EndsWith(SessionLog(s), FlushTail(s))

\* A worker at the top of its loop with the flag set reads no more audio and
\* leaves the loop for the flush, with the session buffer as it is.
StopObservedStep ==
    \A s \in Sessions :
        sess[s].pc = "loop" /\ sess[s].stop_flag =>
            /\ sess'[s].captured = sess[s].captured
            /\ sess'[s].audio_buffer = sess[s].audio_buffer
            /\ sess'[s].pc # "loop" =>
                 sess'[s].pc = "processing" /\ sess'[s].exit = "stop"

TimeoutStep ==
    \A s \in Sessions :
        /\ sess[s].pc = "loop" /\ ~sess[s].stop_flag
             /\ sess[s].elapsed >= MaxDurMs(sess[s].max_duration) =>
               /\ sess'[s].captured = sess[s].captured
               /\ sess'[s].pc # "loop" =>
                    sess'[s].pc = "processing" /\ sess'[s].exit = "timeout"
        /\ sess[s].pc = "loop" /\ sess'[s].pc = "processing" =>
               \/ sess[s].stop_flag
               \/ sess[s].elapsed >= MaxDurMs(sess[s].max_duration)

\* A session that ended without stop(), without a SpeechEnd exit and without
\* a failure ended on its deadline.
TimeoutExitInv ==
    \A s \in Sessions :
        /\ sess[s].exit \in {"none", "stop", "timeout", "speech_end"}
        /\ sess[s].pc = "finished" /\ sess[s].stops = 0
             /\ sess[s].exit # "speech_end" /\ IsOk(sess[s].result) =>
               sess[s].exit = "timeout"
        /\ sess[s].exit = "timeout" /\ sess[s].pc = "finished" =>
               EndsWith(SessionLog(s), FlushTail(s))

\* C12: every session terminates by timeout.  When stop() is not called and
\* the VAD reports no SpeechEnd, the loop is left at the first iteration
\* boundary at which max_duration has elapsed, however much audio is
\* buffered and even when capture yields no sample; every session that
\* entered its loop reaches a terminal state.
TimeoutTerminates ==
    /\ []TimeoutExitInv
    /\ [][TimeoutStep]_vars
    /\ \A s \in Sessions : (sess[s].pc = "loop") ~> (sess[s].pc = "finished")

\* A session to which capture gave no sample and that nobody stopped has
\* ended on its deadline with the empty text.
TimeoutTerminatesWitness ==
    /\ sess[1].pc = "finished"
    /\ sess[1].exit = "timeout"
    /\ sess[1].stops = 0
    /\ micTotal = 0
    /\ Kinds(SessionLog(1)) = <<"Listening", "Processing", "Done">>
    /\ sess[1].result = Ok(<<>>)

\* The errors run_pipeline returns once its loop runs.
WorkerFailures == {Err("VadProcess"), Err("Transcribe")}

\* A failed inference is the error of the pipeline; a session whose pipeline
\* failed is out of the pipeline, and once finished its last callback is the
\* Error of the failure, with no Done.
WorkerFailureInv ==
    \A s \in Sessions :
        /\ IsErr(sess[s].infer_res) =>
             \/ sess[s].pc = "flush_err"
             \/ sess[s].result = Err("Transcribe")
        /\ IsErr(sess[s].result) =>
             /\ sess[s].pc \in {"clear_flag", "terminal", "finished"}
             /\ sess[s].pc # "clear_flag" /\ ~(\E o \in Sessions : InPipeline(o))
                  => ~is_recording
             /\ ~Has(SessionLog(s), "Done")
             /\ sess[s].pc = "finished" =>
                  Last(SessionLog(s)) = Event(s, "Error", sess[s].result[2])

\* A failure ends the pipeline at once: the worker's next step clears the
\* flag, exactly as after a success, and its only further callback is the
\* terminal one.
WorkerFailureStep ==
    \A s \in Sessions :
        /\ sess[s].pc = "flush_err" /\ sess'[s].pc # "flush_err" =>
             sess'[s].pc = "clear_flag" /\ sess'[s].result = Err("Transcribe")
        /\ sess[s].pc = "clear_flag" /\ sess'[s].pc # "clear_flag" =>
             sess'[s].pc = "terminal" /\ ~recording'
        /\ IsErr(sess[s].result) =>
             /\ sess'[s].result = sess[s].result
             /\ SelectSeq(events', LAMBDA e : e[1] = s) \in
                  { SessionLog(s),
                    Append(SessionLog(s), Event(s, "Error", sess[s].result[2])) }

\* C13: a failure inside the worker (VAD process_chunk, inference, engine
\* lock during flush) aborts the loop and reaches the callback as
\* on_state_change(Error): never as Done, never swallowed, and the recording
\* flag is cleared as on the success path.
WorkerFailureReported ==
    /\ []WorkerFailureInv
    /\ [][WorkerFailureStep]_vars
    /\ \A s \in Sessions :
         (IsErr(sess[s].result) \/ sess[s].pc = "flush_err")
             ~> (/\ sess[s].pc = "finished"
                 /\ sess[s].result \in WorkerFailures \cup {Err("Audio"), Err("VadInit")}
                 /\ Last(SessionLog(s))[2] = "Error"
                 /\ ~is_recording)

\* A session whose inference failed has ended in Error, with the flag clear.
WorkerFailureWitness ==
    /\ sess[1].pc = "finished"
    /\ sess[1].infer_res = Err("Inference")
    /\ sess[1].result = Err("Transcribe")
    /\ Last(SessionLog(1)) = Event(1, "Error", "Transcribe")
    /\ Has(SessionLog(1), "Processing")
    /\ ~is_recording

\* The sessions whose worker is inside engine.transcribe.
Inferring == {s \in Sessions : sess[s].pc = "infer"}

\* An engine's lock is held exactly while a worker runs an inference on that
\* engine, so at most one inference runs on an engine at a time.
EngineLockInv ==
    /\ \A e \in Engines :
         engLock[e] # Free =>
             \E s \in Inferring : engLock[e] = WorkerT(s) /\ sess[s].engine = e
    /\ \A s \in Inferring : engLock[sess[s].engine] = WorkerT(s)
    /\ \A s, o \in Inferring : sess[s].engine = sess[o].engine => s = o

\* C14 as stated: switch_model takes the lock that inference holds before it
\* replaces the loaded model, so the model is never replaced while an
\* inference is in flight.
NoSwapDuringInference == [][Inferring # {} => engineSlot' = engineSlot]_vars

\* A step that replaces the loaded model puts a newly loaded engine into the
\* slot; it takes no engine lock and leaves every engine loaded before, and
\* every session, as it was.
SwapStep ==
    engineSlot' # engineSlot =>
        /\ engineSlot' = nextEngine + 1 /\ nextEngine' = nextEngine + 1
        /\ engLock[engineSlot'] = Free
        /\ UNCHANGED <<engLock, engPoisoned, sess, events, recording>>
        /\ \A e \in 1..nextEngine : engModel'[e] = engModel[e]

\* C14, amended: at most one inference call executes at any time on an
\* engine, the engine's lock being held exactly for the call.  switch_model
\* does not take that lock: under the inner lock alone it puts a newly
\* loaded engine into the slot, also while an inference is in flight, and
\* the inference goes on undisturbed on the engine it started on.
EngineExclusive == []EngineLockInv /\ [][SwapStep]_vars

\* switch_model has returned Ok while the worker is inside its inference on
\* the engine loaded before.
EngineExclusiveWitness ==
    /\ returning = <<1, "switch_model", Ok("unit")>>
    /\ sess[1].pc = "infer"
    /\ engLock[sess[1].engine] = WorkerT(1)
    /\ engineSlot # sess[1].engine
    /\ engLock[engineSlot] = Free

\* The samples a+1 .. b of the capture stream, in capture order.
Captured(a, b) == [i \in 1..(b - a) |-> a + i]

\* The samples read before the onset batch that the pre-speech buffer keeps.
KeptBeforeOnset(s) ==
    Captured(sess[s].onset - Min(PreSpeechMax, sess[s].onset), sess[s].onset)

\* The pre-speech buffer as it stood at speech onset, then every sample read
\* from the onset batch onward.
AudioSinceOnset(s) ==
    sess[s].onset_pre \o Captured(sess[s].onset, sess[s].captured)

\* C15: no audio is lost or duplicated on the stop/timeout path.  Once
\* speech was detected, the session buffer at every loop boundary and at the
\* flush after stop() or timeout is the pre-speech buffer as it stood at
\* speech onset followed by every sample read from the onset batch onward,
\* in capture order; inference is handed that audio, cut to the cap.
NoAudioLostOnStop ==
    \A s \in Sessions :
        sess[s].speech_detected /\ sess[s].exit \in {"none", "stop", "timeout"} =>
            /\ sess[s].onset_pre = KeptBeforeOnset(s)
            /\ sess[s].pc \in {"loop", "processing", "flush"} =>
                 sess[s].audio_buffer = AudioSinceOnset(s)
            /\ sess[s].pc = "infer" =>
                 sess[s].audio_buffer = Truncate(AudioSinceOnset(s))

\* A session whose speech began in its second batch and that ran into its
\* deadline hands inference the sample read before and the onset batch.
NoAudioLostOnStopWitness ==
    /\ sess[1].pc = "infer"
    /\ sess[1].exit = "timeout"
    /\ sess[1].onset = 1
    /\ sess[1].onset_pre = <<1>>
    /\ sess[1].captured = 3
    /\ sess[1].audio_buffer = <<1, 2, 3>>

\* Whether sample i is in a buffer.
Holds(buf, i) == \E k \in 1..Len(buf) : buf[k] = i

\* C16 as stated: no audio is lost on the SpeechEnd path.  The audio of the
\* flush after a SpeechEnd holds every sample read since speech onset, the
\* batch in which the SpeechEnd chunk was found included.
NoAudioLostOnSpeechEnd ==
    \A s \in Sessions :
        sess[s].exit = "speech_end" /\ sess[s].pc = "flush" =>
            \A i \in (sess[s].onset + 1)..sess[s].captured :
                Holds(sess[s].audio_buffer, i)

\* C17 as stated: a session that leaves its loop on stop() or timeout with
\* samples in the pre-speech buffer and no SpeechStart hands those samples
\* to inference.
PreSpeechAudioFlushed ==
    \A s \in Sessions :
        /\ sess[s].pc = "emit"
        /\ sess[s].exit \in {"stop", "timeout"}
        /\ ~sess[s].speech_detected
        /\ sess[s].pre_speech_buffer # <<>>
        => sess[s].infers = 1

\* The flush of an empty buffer takes no engine lock, calls no inference,
\* leaves the buffer empty and returns the empty list.
EmptyFlushStep ==
    \A s \in Sessions :
        sess[s].pc = "flush" /\ sess[s].audio_buffer = <<>> =>
            /\ engLock' = engLock
            /\ sess'[s].infers = sess[s].infers
            /\ sess'[s].audio_buffer = <<>>
            /\ sess'[s].pc # "flush" =>
                 sess'[s].pc = "emit" /\ sess'[s].segments = <<>>

\* A flush that made no inference gave no segment and no error: the pipeline
\* ends with the empty text.
EmptyFlushInv ==
    \A s \in Sessions :
        /\ sess[s].pc = "emit" /\ sess[s].infers = 0 =>
             /\ sess[s].segments = <<>>
             /\ sess[s].audio_buffer = <<>>
             /\ sess[s].infer_res = NoResult
        /\ sess[s].pc \in {"clear_flag", "terminal", "finished"}
             /\ sess[s].exit # "none" /\ sess[s].infers = 0 =>
               sess[s].result = Ok(<<>>)

\* C18: flush on a session whose buffer is empty returns an empty segment
\* list without acquiring the engine lock and without invoking transcribe,
\* and leaves the buffer empty; it is a no-op, not an error.
EmptyFlushIsNoOp == []EmptyFlushInv /\ [][EmptyFlushStep]_vars

\* The flush after a stop() that came before any speech has returned the
\* empty list without an inference.
EmptyFlushWitness ==
    /\ sess[1].pc = "emit"
    /\ sess[1].exit = "stop"
    /\ sess[1].infers = 0
    /\ sess[1].segments = <<>>
    /\ Last(SessionLog(1))[2] = "Processing"
    /\ \A e \in Engines : engLock[e] = Free

\* The flush of a non-empty buffer goes to transcribe with the first
\* MaxSamples samples of the buffer when it is longer, and with the whole
\* buffer otherwise.
TruncationStep ==
    \A s \in Sessions :
        /\ sess[s].pc = "flush"
        /\ sess[s].audio_buffer # <<>>
        /\ sess'[s].pc \in {"infer", "flush_err"}
        => LET buf == sess[s].audio_buffer
               passed == sess'[s].audio_buffer
           IN  IF Len(buf) > MaxSamples
               THEN /\ Len(passed) = MaxSamples
                    /\ \A k \in 1..MaxSamples : passed[k] = buf[k]
               ELSE passed = buf

\* transcribe never sees more than MaxSamples samples, and no sample beyond
\* them is left in the buffer when the flush has returned.
TruncationInv ==
    /\ MAX_SAMPLES = 3840000
    /\ \A s \in Sessions :
         /\ sess[s].pc \in {"infer", "flush_err", "emit"} =>
              Len(sess[s].audio_buffer) <= MaxSamples
         /\ sess[s].pc = "infer" /\ sess[s].exit \in {"stop", "timeout"} =>
              /\ \A k \in 1..Len(sess[s].audio_buffer) :
                    sess[s].audio_buffer[k] = AudioSinceOnset(s)[k]
              /\ Len(sess[s].audio_buffer) =
                    IF Len(AudioSinceOnset(s)) > MaxSamples
                    THEN MaxSamples ELSE Len(AudioSinceOnset(s))

\* C19: flush never passes more than MAX_SAMPLES = 4*60*16000 = 3,840,000
\* samples to transcribe.  A longer buffer is cut to exactly its first
\* MAX_SAMPLES samples, the trailing excess is neither sent nor kept, and a
\* buffer that is not longer is passed unchanged.
FlushTruncates == []TruncationInv /\ [][TruncationStep]_vars

\* An inference runs on the first MaxSamples samples of a longer recording.
FlushTruncatesWitness ==
    /\ sess[1].pc = "infer"
    /\ Len(AudioSinceOnset(1)) > MaxSamples
    /\ Len(sess[1].audio_buffer) = MaxSamples
    /\ sess[1].audio_buffer[1] = AudioSinceOnset(1)[1]

\* C20 as stated: after flush has returned the accumulation buffer of the
\* session is empty, whether the inference succeeded or failed.
BufferEmptyAfterFlush ==
    \A s \in Sessions :
        sess[s].pc \in {"emit", "flush_err"} => sess[s].audio_buffer = <<>>

\* The positions of a text that hold no whitespace, and the text between the
\* first and the last of them.
Inked(t) == {i \in 1..Len(t) : t[i] # " "}
FirstInked(t) == CHOOSE i \in Inked(t) : \A j \in Inked(t) : i <= j
LastInked(t) == CHOOSE i \in Inked(t) : \A j \in Inked(t) : j <= i
Stripped(t) ==
    IF Inked(t) = {} THEN <<>> ELSE SubSeq(t, FirstInked(t), LastInked(t))

\* A text whose first and last non-whitespace characters are a matching
\* bracket pair.
Wrapped(t) ==
    /\ Inked(t) # {}
    /\ \/ t[FirstInked(t)] = "[" /\ t[LastInked(t)] = "]"
       \/ t[FirstInked(t)] = "(" /\ t[LastInked(t)] = ")"

\* C21: flush returns at most one segment.  After a successful inference it
\* returns exactly one segment, final, whose text is the engine's output
\* with the whitespace trimmed, if that text is non-empty and the
\* hallucination filter does not match it, and the empty list otherwise.
FlushOneSegment ==
    output # NoResult /\ output[1] = "flush" =>
        /\ Len(output[2]) <= 1
        /\ IF Stripped(input) # <<>> /\ ~Wrapped(input)
           THEN output[2] = << [text |-> Stripped(input), is_final |-> TRUE] >>
           ELSE output[2] = <<>>

\* flush has returned one segment whose text lost the whitespace around it.
FlushOneSegmentWitness ==
    /\ input = <<" ", "a", " ", "a", " ">>
    /\ output = <<"flush", << [text |-> <<"a", " ", "a">>, is_final |-> TRUE] >> >>

\* C22: the hallucination filter matches a text exactly when, with the
\* whitespace around it trimmed, it starts with '[' and ends with ']' or
\* starts with '(' and ends with ')'.  "[a]", "(a)" and " [a] " are matched;
\* "a a", "a[a]a", the empty text and the mismatched "[a)" are not.
HallucinationFilter ==
    /\ output # NoResult /\ output[1] = "is_hallucination" =>
         output[2] = Wrapped(input)
    /\ is_hallucination(<<"[", "a", "]">>)
    /\ is_hallucination(<<"(", "a", ")">>)
    /\ is_hallucination(<<" ", "[", "a", "]", " ">>)
    /\ ~is_hallucination(<<"a", " ", "a">>)
    /\ ~is_hallucination(<<"a", "[", "a", "]", "a">>)
    /\ ~is_hallucination(<<>>)
    /\ ~is_hallucination(<<"[", "a", ")">>)

\* The filter has matched a bracketed text with whitespace around it.
HallucinationFilterWitness ==
    /\ input = <<" ", "[", "a", "]", " ">>
    /\ output = <<"is_hallucination", TRUE>>

\* Whether chunk i of the stream given to the detector is a speaking one.
Speaking(i) == vad.probs[i] > vad.speech_threshold

\* The chunks i..j of the stream are all silent ones.
SilentRun(i, j) == \A k \in i..j : ~Speaking(k)

\* Each event and the one before it, as the form
\* (Silence* SpeechStart SpeechContinue* SpeechEnd)* allows them.
VadStreamForm ==
    \A i \in 1..Len(vad.log) :
        LET idle == i = 1 \/ vad.log[i - 1] \in {"Silence", "SpeechEnd"}
        IN  /\ vad.log[i] \in {"SpeechStart", "Silence"} => idle
            /\ vad.log[i] \in {"SpeechContinue", "SpeechEnd"} => ~idle

\* SpeechStart is the event of a speaking chunk, the first of its run;
\* SpeechEnd comes with the silent chunk that completes silence_duration_ms
\* of silence after the last speaking chunk; Silence is the event of a
\* silent chunk.
VadEdges ==
    \A i \in 1..Len(vad.log) :
        /\ vad.log[i] = "SpeechStart" =>
              Speaking(i) /\ (i > 1 /\ Speaking(i - 1) => vad.log[i - 1] = "SpeechEnd")
        /\ vad.log[i] = "Silence" => ~Speaking(i)
        /\ vad.log[i] = "SpeechEnd" =>
              \E j \in 1..i :
                  /\ SilentRun(j, i)
                  /\ (i - j + 1) * ChunkMs >= vad.silence_duration_ms
                  /\ j > 1 /\ Speaking(j - 1)
        /\ Speaking(i) => vad.log[i] \in {"SpeechStart", "SpeechContinue"}

VadInv ==
    vad.live =>
        /\ VadStreamForm
        /\ VadEdges
        /\ (\A i \in 1..Len(vad.probs) : ~Speaking(i)) =>
              \A i \in 1..Len(vad.log) : vad.log[i] = "Silence"

\* C23: the events of the detector are edge-triggered over any chunk
\* stream.  SpeechStart comes once per speech run, on its first speaking
\* chunk, and later chunks of the run give SpeechContinue; SpeechEnd comes
\* once per run, only when the silence has reached silence_duration_ms;
\* Silence comes only while not speaking.  The stream has the form
\* (Silence* SpeechStart SpeechContinue* SpeechEnd)*, and a stream that
\* stays below speech_threshold never gives SpeechStart.
VadEdgeTriggered == []VadInv

\* Two speech runs, each with one SpeechStart and one SpeechEnd.
VadEdgeTriggeredWitness ==
    /\ vad.live
    /\ vad.silence_duration_ms = 60
    /\ vad.log = <<"Silence", "SpeechStart", "SpeechContinue", "SpeechEnd",
                   "SpeechStart", "SpeechContinue">>

\* C24 as stated: is_active() tells whether the session is still active.
\* Once the session has delivered its terminal state is_active() is false,
\* also when the session ended by itself, without a stop().
IsActiveTellsLiveness ==
    \A s \in Sessions :
        sess[s].pc = "finished" /\ Terminals(SessionLog(s)) = 1 => ~is_active(s)

\* A configuration with every field in its range.
ValidConfig(c) ==
    /\ c.max_duration \in 1..120
    /\ c.silence_duration_ms \in 250..10000
    /\ c.speech_threshold[1] = "f32" /\ c.speech_threshold[2] \in 1..99
    /\ \/ c.language = S_auto
       \/ /\ Len(c.language) \in 2..4
          /\ \A i \in 1..Len(c.language) : is_ascii_lowercase(c.language[i])
    /\ c.global_shortcut # None /\ is_valid_shortcut(c.global_shortcut[2])

\* C25 as stated: every configuration returned by load_config or written by
\* save_config is valid, and load_config gives the validated defaults (with
\* the environment's overrides) for a missing, unreadable or unparsable file.
ConfigAlwaysValid ==
    /\ output # NoResult /\ output[1] = "load_config" =>
         /\ ValidConfig(output[2])
         /\ input[2] \in {"missing", "unreadable", "corrupt"} =>
              \E env \in Envs : output[2] = load_config("json", DefaultConfig, TRUE, env)
    /\ output # NoResult /\ output[1] = "save_config"
         /\ output[2].written # None => ValidConfig(output[2].written[2])

\* C26 as stated: after construction no legacy Whisper name is left, neither
\* in the engine's configuration nor in the persisted one.
LegacyNameGone ==
    Constructed =>
        /\ modelName \notin WHISPER_MODEL_NAMES
        /\ savedModelName \notin WHISPER_MODEL_NAMES

\* Construction replaces a legacy name by the default in the engine's
\* configuration, and in the persisted one unless the save failed; any
\* other name is taken as it is and nothing is written.
MigrationStep ==
    ~Constructed /\ Constructed' =>
        IF savedModelName \in {"tiny.en", "base.en", "small.en", "medium.en"}
        THEN /\ modelName' = "parakeet-tdt-0.6b-v2"
             /\ savedModelName' \in {"parakeet-tdt-0.6b-v2", savedModelName}
        ELSE /\ modelName' = savedModelName
             /\ savedModelName' = savedModelName

\* C26, amended: after construction the engine's configuration holds no
\* legacy Whisper name: a legacy name was replaced by the default model
\* name.  The persisted configuration is rewritten with it when save_config
\* succeeds and keeps the legacy name when it fails.
LegacyMigration ==
    /\ [](Constructed => modelName \notin WHISPER_MODEL_NAMES)
    /\ [][MigrationStep]_vars

\* A migrated engine whose persisted configuration kept the legacy name.
LegacyMigrationWitness ==
    /\ modelName = default_model_name
    /\ savedModelName = "tiny.en"
    /\ engineSlot = 0

\* C27 as stated: download_model never leaves a partial or unverified file
\* at a final path: a file at a final path came from a stream that ended
\* without error and passed the integrity check.  When download_model
\* returns an error of the download of a file, the temp file of that file
\* is removed, no file is at its final path, and the model does not count
\* as downloaded.
NoPartialModelFile ==
    /\ \A f \in Files :
         disk[f].final.exists => disk[f].final.complete /\ disk[f].final.verified
    /\ dl.pc = "done" /\ IsErr(dl.result) /\ dl.file \in Files =>
         /\ ~disk[dl.file].temp.exists
         /\ ~disk[dl.file].final.exists
         /\ ~is_model_downloaded

\* C28 as stated: a file with no reference hash is accepted only if its
\* size is within 10% of the expected size, on either side.
SizeWithinTenPercent ==
    \A f \in Files :
        dl.crate = "dikto" /\ ~dl.sha256[f] /\ disk[f].final.exists =>
            /\ disk[f].final.size >= expected_size(f) - expected_size(f) \div 10
            /\ disk[f].final.size <= expected_size(f) + expected_size(f) \div 10

\* C29: at every loop-iteration boundary of the worker the pre-speech buffer
\* holds at most pre_speech_max samples (16000 in the source); while speech
\* has not been detected it holds the most recent pre_speech_max samples
\* read, in capture order, or all of them when fewer were read.
PreSpeechRing ==
    \A s \in Sessions :
        sess[s].pc = "loop" =>
            /\ Len(sess[s].pre_speech_buffer) <= PreSpeechMax
            /\ ~sess[s].speech_detected =>
                 sess[s].pre_speech_buffer =
                     Captured(sess[s].captured
                                - Min(PreSpeechMax, sess[s].captured),
                              sess[s].captured)

\* More samples than the buffer holds were read before any speech: the
\* buffer holds the newest ones and the first sample is gone.
PreSpeechRingWitness ==
    /\ sess[1].pc = "loop"
    /\ ~sess[1].speech_detected
    /\ sess[1].captured > PreSpeechMax
    /\ Len(sess[1].pre_speech_buffer) = PreSpeechMax
    /\ sess[1].pre_speech_buffer[PreSpeechMax] = sess[1].captured

\* While run_pipeline has not returned: speech_detected stays true, the
\* pre-speech buffer stays empty once speech was detected, and the one step
\* that empties a pre-speech buffer holding samples is the first SpeechStart,
\* which puts those samples into the empty session buffer.
PreSpeechDrainStep ==
    \A s \in Sessions :
        sess'[s].pc # "clear_flag" =>
            /\ sess[s].speech_detected =>
                 /\ sess'[s].speech_detected
                 /\ sess'[s].pre_speech_buffer = sess[s].pre_speech_buffer
            /\ sess'[s].pre_speech_buffer # sess[s].pre_speech_buffer
               /\ sess'[s].pre_speech_buffer = <<>> =>
                 /\ ~sess[s].speech_detected
                 /\ sess'[s].speech_detected
                 /\ sess[s].audio_buffer = <<>>
                 /\ sess'[s].audio_buffer = sess[s].pre_speech_buffer

\* Whether a buffer begins with the samples of another.
BeginsWith(buf, head) ==
    /\ Len(buf) >= Len(head)
    /\ SubSeq(buf, 1, Len(head)) = head

\* Once speech was detected the pre-speech buffer is empty, and the session
\* buffer, up to the inference, begins with the samples the pre-speech buffer
\* held at onset: the newest samples read before the onset batch.
PreSpeechDrainInv ==
    \A s \in Sessions :
        sess[s].speech_detected =>
            /\ sess[s].pre_speech_buffer = <<>>
            /\ sess[s].pc \in {"loop", "chunks", "silence", "processing",
                              "flush", "infer"} =>
                 BeginsWith(sess[s].audio_buffer, KeptBeforeOnset(s))

\* C30: the pre-speech buffer is drained into the session at most once per
\* session, at the first SpeechStart and ahead of any post-onset sample, so
\* the audio transcribed begins with the buffered pre-speech portion; once
\* speech was detected, speech_detected never returns to false and no sample
\* is appended to the pre-speech buffer again.
PreSpeechDrainedOnce == []PreSpeechDrainInv /\ [][PreSpeechDrainStep]_vars

\* An inference on audio that begins with a sample read before the onset
\* batch, after samples read from the onset on were fed behind it.
PreSpeechDrainedOnceWitness ==
    /\ sess[1].pc = "infer"
    /\ sess[1].speech_detected
    /\ sess[1].onset > 0
    /\ sess[1].captured > sess[1].onset
    /\ sess[1].audio_buffer[1] = sess[1].onset
    /\ Len(sess[1].audio_buffer) > 1

\* C31: the worker passes the VAD only chunks of exactly chunk_size samples,
\* in capture order: the chunks passed so far, one after the other and
\* followed by the staging buffer, are the samples captured so far, each
\* once and none skipped; at the head of each loop iteration the staging
\* buffer holds fewer than chunk_size samples.
VadChunking ==
    \A s \in Sessions :
        sess[s].pc \in {"loop", "chunks", "silence"} =>
            /\ \A k \in 1..Len(sess[s].vad_chunks) :
                 sess[s].vad_chunks[k] =
                     Captured((k - 1) * sess[s].chunk_size,
                              k * sess[s].chunk_size)
            /\ sess[s].vad_buffer =
                   Captured(Len(sess[s].vad_chunks) * sess[s].chunk_size,
                            sess[s].captured)
            /\ sess[s].pc = "loop" =>
                 Len(sess[s].vad_buffer) < sess[s].chunk_size

\* One whole chunk went to the VAD and the sample read after it waits in the
\* staging buffer for the rest of its chunk.
VadChunkingWitness ==
    /\ sess[1].pc = "loop"
    /\ sess[1].chunk_size = ChunkSize
    /\ sess[1].captured = ChunkSize + 1
    /\ Len(sess[1].vad_chunks) = 1
    /\ sess[1].vad_buffer = <<ChunkSize + 1>>

\* The on_partial notifications session s has been given.
Partials(s) == Count(SessionLog(s), "Partial")

\* C32: on_partial is delivered only after speech has been detected and only
\* in a loop iteration that read new samples, and two consecutive on_partial
\* notifications of one session are at least 500 ms apart: a step that
\* delivers on_partial delivers one, in an iteration whose batch is not
\* empty, with speech detected and with last_partial_time at least 500 ms
\* back, and it sets last_partial_time to now.
PartialStep ==
    \A s \in Sessions :
        Partials(s)' # Partials(s) =>
            /\ Partials(s)' = Partials(s) + 1
            /\ sess[s].pc = "chunks"
            /\ sess[s].speech_detected
            /\ sess[s].samples # <<>>
            /\ sess[s].samples =
                   Captured(sess[s].captured - Len(sess[s].samples),
                            sess[s].captured)
            /\ sess[s].since_partial >= PartialIntervalMs
            /\ sess'[s].since_partial = 0

PartialThrottled == [][PartialStep]_vars

\* A session that was given on_partial twice.
PartialThrottledWitness == Partials(1) = 2

\* The positions of the on_final_segment notifications in a session's log.
Finals(log) == {i \in 1..Len(log) : log[i][2] = "Final"}

\* C33: on_final_segment is delivered at most once per session, after
\* on_state_change(Processing) and before the terminal state, and it carries
\* a non-empty text; a session that ends in Done with a non-empty text has
\* delivered it with that same text, and a session that ends in Error or in
\* Done with the empty text has delivered none.
FinalSegmentOnce ==
    \A s \in Sessions :
        LET log == SessionLog(s)
        IN  /\ Cardinality(Finals(log)) <= 1
            /\ \A i \in Finals(log) :
                 /\ log[i][3] # <<>>
                 /\ \E j \in 1..(i - 1) : log[j][2] = "Processing"
                 /\ \A j \in 1..(i - 1) : ~IsTerminal(log[j])
            /\ \A k \in 1..Len(log) :
                 IsTerminal(log[k]) =>
                     IF log[k][2] = "Done" /\ log[k][3] # <<>>
                     THEN \E i \in Finals(log) :
                            i < k /\ log[i][3] = log[k][3]
                     ELSE Finals(log) = {}

\* A session that delivered on_final_segment and then Done with its text.
FinalSegmentOnceWitness ==
    LET log == SessionLog(1)
    IN  /\ Len(log) >= 2
        /\ log[Len(log)][2] = "Done"
        /\ log[Len(log) - 1][2] = "Final"
        /\ log[Len(log) - 1][3] = log[Len(log)][3]

\* The sessions whose worker was spawned and has not yet cleared the
\* recording flag.
HoldsFlag(s) ==
    sess[s].pc \notin {"none", "terminal", "finished"}

\* C34 as stated: whenever on_state_change(Done) or on_state_change(Error)
\* is invoked, is_recording() is already false.
FlagFalseAtTerminal ==
    \A s \in Sessions : sess[s].pc = "terminal" => ~is_recording

\* C34, amended: the worker clears the recording flag before it delivers the
\* terminal notification, so when Done or Error is invoked the flag is true
\* only if a session started later holds it; and a start_listening is
\* rejected with AlreadyRecording only while some session has not yet
\* cleared the flag, never on account of a session that is delivering or
\* has delivered its terminal notification.
FlagClearedBeforeTerminal ==
    /\ \A s \in Sessions :
         sess[s].pc \in {"terminal", "finished"} /\ is_recording =>
             \E s2 \in Sessions : s2 > s /\ HoldsFlag(s2)
    /\ \/ returning = NoResult
       \/ returning[2] # "start_listening"
       \/ returning[3] # Err("AlreadyRecording")
       \/ \E s \in Sessions : HoldsFlag(s)

\* The second session was started after the first cleared the flag and
\* before the first delivered its terminal notification.
FlagClearedBeforeTerminalWitness ==
    /\ sess[1].pc = "terminal"
    /\ is_recording
    /\ HoldsFlag(2)

\* C35 as stated: callbacks of consecutive sessions never interleave: every
\* callback of a session, its terminal Done or Error included, is delivered
\* before any callback of a session started later.
CallbacksNeverInterleave ==
    \A i, j \in 1..Len(events) :
        i < j => events[i][1] <= events[j][1]

\* C35, amended: every callback of a session other than its terminal Done or
\* Error is delivered before any callback of a session started later; the
\* terminal notification, which follows recording.store(false), may be
\* delivered after callbacks of the later session.
CallbacksOrdered ==
    \A i, j \in 1..Len(events) :
        i < j /\ events[i][1] > events[j][1] => IsTerminal(events[j])

\* The Listening of the second session was delivered before the terminal
\* notification of the first.
CallbacksOrderedWitness ==
    \E i, j \in 1..Len(events) :
        /\ i < j
        /\ events[i] = Event(2, "Listening", <<>>)
        /\ events[j][1] = 1
        /\ IsTerminal(events[j])

\* A caller inside start_listening, and a worker thread that has not ended.
InCall(c) == callerPc[c] # "idle"
Alive(s) == sess[s].pc \notin {"none", "finished"}

\* The thread can take a step, or the lock it waits for is held by a worker
\* inside flush that can take a step.
HolderRuns(e) ==
    \E s \in Sessions : engLock[e] = WorkerT(s) /\ ENABLED FlushInfer(s)
CallerRuns(c) ==
    \/ ENABLED (StartListeningCreateSession(c) \/ StartListeningSpawn(c))
    \/ HolderRuns(callerEngine[c])
WorkerRuns(s) ==
    \/ ENABLED WorkerStep(EngineLimits, s)
    \/ HolderRuns(sess[s].engine)

KeepsEngineStep ==
    /\ \A s \in Sessions :
         /\ sess[s].pc = "none" /\ sess'[s].pc # "none" =>
              sess'[s].engine = engineSlot /\ engineSlot' = engineSlot
         /\ sess[s].pc # "none" => sess'[s].engine = sess[s].engine
         /\ sess'[s].infers # sess[s].infers =>
              engLock[sess[s].engine] = WorkerT(s)
    /\ \A e \in Engines :
         engModel[e] # "none" => engModel'[e] = engModel[e]

\* The inference of a session is made under the lock of its own engine.
KeepsEngineInv ==
    \A s \in Sessions :
        sess[s].pc = "infer" => engLock[sess[s].engine] = WorkerT(s)

\* C37: a running session keeps the engine instance that was loaded when
\* start_listening was called: a switch_model that completes while the
\* session is active does not change the engine that transcribes the
\* session's audio, and it affects only sessions started afterwards.
SessionKeepsEngine == []KeepsEngineInv /\ [][KeepsEngineStep]_vars

\* A session has had its audio transcribed by the engine it was started
\* with, after a switch_model put another engine in the SottoEngine.
SessionKeepsEngineWitness ==
    /\ sess[1].pc = "emit"
    /\ sess[1].infers = 1
    /\ sess[1].engine = 1
    /\ engineSlot = 2

\* A step in which a switch_model call returns an error.
SwitchModelFails ==
    /\ returning = NoResult
    /\ returning' # NoResult
    /\ returning'[2] = "switch_model"
    /\ IsErr(returning'[3])

\* C38 as stated: switch_model is all-or-nothing: whenever it returns an
\* error, the loaded engine and the in-memory model_name are the same as
\* before the call.
SwitchAllOrNothingStep ==
    SwitchModelFails => engineSlot' = engineSlot /\ modelName' = modelName

SwitchAllOrNothing == [][SwitchAllOrNothingStep]_vars

\* C39: whenever the recording flag is false, no worker is between its spawn
\* and recording.store(false), so none is in its capture loop or inside an
\* inference call; an engine lock is held by a worker only while the flag is
\* true; and when start_listening comes to lock the engine to create the
\* session, the lock is free.
FlagGuardsWorker ==
    /\ ~recording => \A s \in Sessions : ~HoldsFlag(s)
    /\ \A e \in Engines : engLock[e] # Free => recording
    /\ \A c \in Callers :
         callerPc[c] = "create_session" =>
             /\ ~recording
             /\ engLock[callerEngine[c]] = Free

\* A start_listening is about to lock the engine for its session while the
\* worker of the session before, which ran an inference on that engine, has
\* its terminal notification still to deliver.
FlagGuardsWorkerWitness ==
    \E c \in Callers :
        /\ callerPc[c] = "create_session"
        /\ sess[1].pc = "terminal"
        /\ sess[1].infers = 1
        /\ sess[1].engine = callerEngine[c]

\* The terminal notifications delivered to session 1, as results.
TerminalResults ==
    { IF events[i][2] = "Done" THEN Ok(events[i][3]) ELSE Err(events[i][3]) :
        i \in {k \in 1..Len(events) : events[k][1] = 1 /\ IsTerminal(events[k])} }

\* The waiting thread returns only with the result of the session.
WaiterSafe ==
    completion.pc = "done" => completion.taken \in TerminalResults

\* C40: a caller that waits for the completion of a session on the
\* mutex-protected result slot and the condition variable never misses the
\* terminal notification: once Done or Error has been delivered, before the
\* waiter waits or while it waits, the waiter eventually returns, and it
\* returns with exactly that session's result.
WaiterNeverMisses ==
    /\ []WaiterSafe
    /\ (TerminalResults # {}) ~> (completion.pc = "done")

\* The waiter was parked in Condvar::wait, was unparked by the notification
\* and returned with the result.
WaiterNeverMissesWitness ==
    /\ completion.pc = "done"
    /\ completion.waited
    /\ completion.spurious = 0
    /\ completion.taken \in TerminalResults

====
